---- MODULE Spec2Model ----
(***************************************************************************)
(* Model of the crawl engine of scraper_lib.py: the scrape_site loop, the  *)
(* request loop of scrape_page with its redirect handling, the wcm         *)
(* (canonical) url handling, save_page and the link loop, together with    *)
(* the tables of the scrape database they write.                           *)
(*                                                                         *)
(* Strings are sequences of tokens: "https://example.org/a#top" is         *)
(* <<"https://example.org", "/", "a", "#", "top">>.  The string functions  *)
(* the code uses (startswith, endswith, in, partition, split, urljoin) are *)
(* operators on these sequences.                                           *)
(*                                                                         *)
(* The site answers a request for one url the same way during one crawl:   *)
(* the answer is drawn when the url is first requested and kept in `site`. *)
(* resp.url is the url that was requested (allow_redirects=False).         *)
(***************************************************************************)
EXTENDS Integers, Sequences, FiniteSets, TLC

\* ------------------------------------------------------------------ bounds

\* max_urls is drawn from 1..MaxBudget
MaxBudget == 3
\* the per-url request counter saturates here
RequestCap == 2

\* ----------------------------------------------------------------- strings

\* A value that is no string: Python's None, an absent tag or header.
None == <<"<None>">>

startswith(s, p) == Len(s) >= Len(p) /\ SubSeq(s, 1, Len(p)) = p

endswith(s, p) == Len(s) >= Len(p) /\ SubSeq(s, Len(s) - Len(p) + 1, Len(s)) = p

\* p in s, for a one-token p
contains(s, tok) == \E i \in 1..Len(s) : s[i] = tok

\* the positions at which p occurs in s
Occurrences(s, p) == {i \in 1..(Len(s) - Len(p) + 1) : SubSeq(s, i, i + Len(p) - 1) = p}

Min(S) == CHOOSE x \in S : \A y \in S : x <= y

\* s.partition(tok): the part before the first tok and the part after it
partition_head(s, tok) ==
    IF contains(s, tok) THEN SubSeq(s, 1, Min(Occurrences(s, <<tok>>)) - 1) ELSE s

partition_tail(s, tok) ==
    IF contains(s, tok) THEN SubSeq(s, Min(Occurrences(s, <<tok>>)) + 1, Len(s)) ELSE <<>>

\* s.split(p) has a second element
split_has_1(s, p) == Occurrences(s, p) # {}

\* s.split(p)[1]: what follows the first p, up to the next p
split_1(s, p) ==
    LET rest == SubSeq(s, Min(Occurrences(s, p)) + Len(p), Len(s))
    IN  IF Occurrences(rest, p) = {} THEN rest
        ELSE SubSeq(rest, 1, Min(Occurrences(rest, p)) - 1)

\* the scheme-and-host tokens
Origins == {"https://example.org", "https://other.org"}

\* re.match('^https?://', link)
is_http(s) == Len(s) >= 1 /\ s[1] \in Origins

\* urllib.parse.urljoin(base, link) for the forms of link that occur:
\* absolute, site-relative ("/..."), fragment-only ("#...") and empty
urljoin(base, link) ==
    IF link = <<>> THEN base
    ELSE IF link[1] \in Origins THEN link
    ELSE IF link[1] = "/" THEN <<base[1]>> \o link
    ELSE IF link[1] = "#" THEN partition_head(base, "#") \o link
    ELSE SubSeq(base, 1, Len(base) - 1) \o link

\* -------------------------------------------------------------------- urls

\* root_url = _SITE + root
root_url == <<"https://example.org">>

Home == <<"https://example.org", "/", "home">>
A == <<"https://example.org", "/", "a">>
AFinal == <<"https://example.org", "/", "a-final">>
ACanon == <<"https://example.org", "/", "a-canonical">>
X == <<"https://other.org", "/", "x">>

\* every url the crawl can come to request
Universe == {Home, A, AFinal, ACanon, X}

\* the urls the drawn sites and start sets are made of
GenericURLs == {Home, A, X}

\* --------------------------------------------------------------- responses

\* the content of a 200 response that scrape_page reads: the
\* <meta http-equiv="refresh"> target, the <meta name="DCTERMS.identifier">
\* content and the <a href> tags in the order of split_tree's three trees
Body(refresh, identifier, a_tags) ==
    [refresh |-> refresh, identifier |-> identifier, a_tags |-> a_tags]

EmptyBody == Body(None, None, <<>>)

ATag(href, tree) == [href |-> href, tree |-> tree]

\* requests.get raises a RequestException (connection error, timeout)
RequestError == [kind |-> "error", status |-> 0, location |-> None, body |-> EmptyBody]

Answer(status, location, body) ==
    [kind |-> "response", status |-> status, location |-> location, body |-> body]

\* the url has not been requested yet
Unknown == [kind |-> "unknown", status |-> 0, location |-> None, body |-> EmptyBody]

\* Location headers of the drawn sites: the generic urls and a relative one
Locations == GenericURLs \cup {<<"/", "a">>}

ServerRedirects ==
    {Answer(301, t, EmptyBody) : t \in Locations} \cup {Answer(302, A, EmptyBody)}

\* statuses the request loop takes as a failure; 303 is a redirect it does not follow
FailedAnswers == {Answer(404, None, EmptyBody), Answer(303, A, EmptyBody)}

ClientRedirects == {Answer(200, None, Body(t, None, <<>>)) : t \in Locations}

\* the href values of the drawn pages
Hrefs ==
    { Home, A, X, <<"/", "a">>, A \o <<"#", "top">>, <<"#">>, <<"/">>,
      <<"https://example.org", "/", "readspeaker">>,
      <<"https://example.org", "/", "a", ".xml">> }

ATagSeqs ==
    {<<>>} \cup {<<ATag(h, "editorial")>> : h \in Hrefs}
           \cup {<<ATag(h, "rest")>> : h \in {A, X}}

Identifiers == {None, Home, A, X}

PageAnswers == {Answer(200, None, Body(None, i, l)) : i \in Identifiers, l \in ATagSeqs}

\* what a url can answer; of an out-of-scope page the code reads the refresh only
Responses(u) ==
    {RequestError} \cup FailedAnswers \cup ServerRedirects \cup ClientRedirects
    \cup (IF startswith(u, root_url) THEN PageAnswers ELSE {Answer(200, None, EmptyBody)})

\* The scenario of the design document: /home links to /a and to
\* https://other.org/x, /a answers 301 to /a-final, whose identifier is
\* /a-canonical.  /home carries its own url as identifier, or none.
ScenarioSite(home_id) ==
    [u \in Universe |->
        IF u = Home THEN
            Answer(200, None, Body(None, home_id,
                   <<ATag(<<"/", "a">>, "editorial"), ATag(X, "editorial")>>))
        ELSE IF u = A THEN Answer(301, AFinal, EmptyBody)
        ELSE IF u = AFinal THEN
            Answer(200, None, Body(None, <<"/", "a-canonical">>, <<>>))
        ELSE Unknown]

NoSite == [u \in Universe |-> Unknown]

\* ------------------------------------------------------------------- state

VARIABLES
    pc,             \* "loop": at the while of scrape_site; "request": at the
                    \* requests.get of scrape_page; "done": after the while;
                    \* "crashed": an exception left scrape_site
    urls_todo, urls_done, urls_scraped, pages_saved, max_urls,
    req_url,        \* the url the request loop is at
    wcm_url,        \* what the last call of scrape_page returned
    start_urls,     \* what prime_scrape returned
    site,           \* the answers the site has given so far
    scr_wcm_paths,  \* sequence of paths: page_id is the position
    pages,          \* set of rows [page_id, doc]
    redirs,         \* set of rows [req_url, redir_url, redir_type]
    links,          \* sequence of rows [url, anchor, type, status]: link_nr is the position
    ed_links,       \* sequence of rows [page_id, link_nr]
    requested,      \* per url: requests.get calls of the request loop, up to RequestCap
    num_requests,   \* requests.get calls of the request loop, up to MaxBudget + 1
    hop,            \* parity of the requests made by the running call of scrape_page
    no_wcm_url      \* the urls logged as 'Page without wcm url; falling back to'

\* The state of sync_page_ids: the master registry and the id columns of the
\* scrape database it is called on.
VARIABLES
    mst_wcm_paths,      \* master database: sequence of paths, page_id is the position
    path_col,           \* scr_wcm_paths.path of the scrape database, per row
    id_cols,            \* per column with a name ending in _id: its values, per row
    universal_page_ids, \* the parameter of the scrape database: "no" or "yes"
    id_trans,           \* the temporary table: set of rows [old_id, new_id]
    before,             \* the id columns at BEGIN TRANSACTION: what a rollback restores
    sync_pc,            \* "idle", "negate", "rewrite", "commit", "synced", "failed"
    col_nr,             \* the column the for loop is at
    retried,            \* a call on this scrape database has failed before
    fresh               \* the id columns as scrape_site left them

crawl_vars == <<pc, urls_todo, urls_done, urls_scraped, pages_saved, max_urls, req_url,
                wcm_url, start_urls, site, scr_wcm_paths, pages, redirs, links, ed_links,
                requested, num_requests, hop, no_wcm_url>>

sync_vars == <<mst_wcm_paths, path_col, id_cols, universal_page_ids, id_trans, before,
               sync_pc, col_nr, retried, fresh>>

\* The state of compile_history: the history tables of the master database
\* and the scrape database it is called on.
VARIABLES
    page_hist,          \* per scrape type: set of rows [timestamp, page_id, title, description, life]
    scrape,             \* the scrape database: timestamp, scrape_type, page_id's and pages_info rows
    compiled,           \* the calls of compile_history on this scrape database
    compiles,           \* per scrape type: the scrapes whose inserts have run, in order
    scrapes,            \* the number of scrape databases made
    called              \* the arguments of the call of scrape_site that made the scrape database

hist_vars == <<page_hist, scrape, compiled, compiles, scrapes, called>>

\* The state of derive_pages_info: the page types and categories in pages_info,
\* the editorial links between the pages and the local variables of the call.
VARIABLES
    pagetype,               \* pages_info.pagetype per page_id
    classes,                \* pages_info.classes per page_id
    business,               \* pages_info.business per page_id
    category,               \* pages_info.category per page_id
    referrers,              \* ed_links joined with links: pairs <<page_id, link_id>>
    main_todo,              \* the rows the for loop of the main pass has not had yet
    wrappers_without_cat,   \* set of page_id's
    max_cycles,
    cycle,
    derive_pc,              \* "off", "begin", "main", "retry" or "done"
    warned,                 \* the pages logged as unresolved
    after_main              \* wrappers_without_cat as the main pass left it

derive_vars == <<pagetype, classes, business, category, referrers, main_todo, wrappers_without_cat,
                 max_cycles, cycle, derive_pc, warned, after_main>>

\* The state of split_tree: the page it is called on and what it returns.
VARIABLES
    soup,           \* the page: kind and parent of every tag below <html>, and the page type
    split,          \* the docs after the call: parent of every tag, root of every doc
    split_pc        \* "off", "page", "returned" or "raised"

tree_vars == <<soup, split, split_pc>>

vars == <<crawl_vars, sync_vars, hist_vars, derive_vars, tree_vars>>

\* what split_tree leaves alone
not_tree == <<crawl_vars, sync_vars, hist_vars, derive_vars>>

\* no call of split_tree
TreeOff ==
    /\ soup = [kind |-> <<>>, parent |-> <<>>, overview |-> FALSE]
    /\ split = [parent |-> <<>>, editorial |-> 0, automated |-> 0, rest |-> 0]
    /\ split_pc = "off"

\* what derive_pages_info leaves alone
not_derive == <<crawl_vars, sync_vars, hist_vars, tree_vars>>

\* no call of derive_pages_info
DeriveOff ==
    /\ pagetype = <<>> /\ classes = <<>> /\ business = <<>>
    /\ category = <<>> /\ referrers = {}
    /\ main_todo = {} /\ wrappers_without_cat = {}
    /\ max_cycles = 0 /\ cycle = 0
    /\ derive_pc = "off"
    /\ warned = {} /\ after_main = {}

\* what the crawl leaves alone
not_crawl == <<sync_vars, hist_vars, derive_vars, tree_vars>>

\* what sync_page_ids leaves alone
not_sync == <<crawl_vars, hist_vars, derive_vars, tree_vars>>

\* what compile_history leaves alone
not_hist == <<crawl_vars, sync_vars, derive_vars, tree_vars>>

db == <<scr_wcm_paths, pages, redirs, links, ed_links>>

\* no scrape database is being synchronised
SyncOff ==
    /\ mst_wcm_paths = <<>>
    /\ path_col = <<>>
    /\ id_cols = <<>>
    /\ universal_page_ids = "no"
    /\ id_trans = {}
    /\ before = <<>>
    /\ sync_pc = "off"
    /\ col_nr = 0
    /\ retried = FALSE
    /\ fresh = <<>>

\* no call of compile_history: no history
NotCompiled ==
    [calls |-> 0, check_dates |-> FALSE, returned |-> "None", accepted |-> {}, earlier |-> {}]

NoScrape ==
    [timestamp |-> None, scrape_type |-> None, scr_wcm_paths |-> {}, pages |-> {},
     pages_info |-> {}]

NoHistory == [t \in {"weekly", "monthly"} |-> {}]

NoCompiles == [t \in {"weekly", "monthly"} |-> <<>>]

\* the scrape database was not made by a call of scrape_site
NoCall == [weekly |-> FALSE, monthly |-> FALSE, override |-> FALSE, basic |-> FALSE,
           by |-> "none"]

HistOff ==
    /\ page_hist = NoHistory
    /\ scrape = NoScrape
    /\ compiled = NotCompiled
    /\ compiles = NoCompiles
    /\ scrapes = 0
    /\ called = NoCall

\* no crawl is running
CrawlOff ==
    /\ pc = "off"
    /\ max_urls = 1
    /\ site = NoSite /\ start_urls = {}
    /\ urls_todo = {} /\ urls_done = {}
    /\ urls_scraped = 0 /\ pages_saved = 0
    /\ req_url = None /\ wcm_url = None
    /\ scr_wcm_paths = <<>> /\ pages = {} /\ redirs = {} /\ links = <<>> /\ ed_links = <<>>
    /\ requested = [u \in Universe |-> 0]
    /\ num_requests = 0 /\ hop = 0 /\ no_wcm_url = {}

Init ==
    /\ SyncOff
    /\ HistOff
    /\ DeriveOff
    /\ TreeOff
    /\ pc = "loop"
    /\ max_urls \in 1..MaxBudget
    /\ \/ site = NoSite /\ start_urls \in SUBSET GenericURLs
       \/ site \in {ScenarioSite(None), ScenarioSite(Home)} /\ start_urls = {Home}
    /\ urls_todo = start_urls
    /\ urls_done = {}
    /\ urls_scraped = 0
    /\ pages_saved = 0
    /\ req_url = None
    /\ wcm_url = None
    /\ scr_wcm_paths = <<>>
    /\ pages = {}
    /\ redirs = {}
    /\ links = <<>>
    /\ ed_links = <<>>
    /\ requested = [u \in Universe |-> 0]
    /\ num_requests = 0
    /\ hop = 0
    /\ no_wcm_url = {}

\* --------------------------------------------------------- scrape database

\* redir_qry: INSERT OR IGNORE INTO redirs; req_url is UNIQUE, so a row whose
\* req_url is present already is ignored. redir_type has TEXT affinity.
redir_qry(tbl, req, redir, type) ==
    IF \E row \in tbl : row.req_url = req THEN tbl
    ELSE tbl \cup {[req_url |-> req, redir_url |-> redir, redir_type |-> type]}

Range(seq) == {seq[i] : i \in 1..Len(seq)}

\* a lookup that reads the last row only
already_saved_last_row(paths, path) == Len(paths) > 0 /\ paths[Len(paths)] = path

\* save_page finds the path in scr_wcm_paths
already_saved(paths, path) == path \in Range(paths)

\* a save_page that writes the page again when its path is stored already
save_page_replacing(paths, pgs, path, doc) ==
    IF already_saved(paths, path)
    THEN LET p_id == CHOOSE i \in 1..Len(paths) : paths[i] = path
         IN  [paths |-> paths,
              pages |-> {row \in pgs : row.page_id # p_id}
                        \cup {[page_id |-> p_id, doc |-> doc]},
              page_id |-> p_id]
    ELSE [paths |-> Append(paths, path),
          pages |-> pgs \cup {[page_id |-> Len(paths) + 1, doc |-> doc]},
          page_id |-> Len(paths) + 1]

\* save_page: the tables after the call, and the page_id it returns (0 for None)
save_page(paths, pgs, path, doc) ==
    IF already_saved(paths, path)
    THEN [paths |-> paths, pages |-> pgs, page_id |-> 0]
    ELSE [paths |-> Append(paths, path),
          pages |-> pgs \cup {[page_id |-> Len(paths) + 1, doc |-> doc]},
          page_id |-> Len(paths) + 1]

\* ------------------------------------------------------------- scrape_page

status_text(status) ==
    CASE status = 200 -> "200" [] status = 301 -> "301" [] status = 302 -> "302"
      [] status = 303 -> "303" [] status = 307 -> "307" [] status = 404 -> "404"
      [] OTHER -> "other"

\* a check_ext_link that gives the link type as the status as well
check_ext_link_type_as_status(r) ==
    IF r.kind = "error" THEN <<"ext", "ext">>
    ELSE IF r.status \in {301, 302, 303, 307}
         THEN IF startswith(r.location, root_url) THEN <<"ext-to-int", "ext-to-int">>
              ELSE <<"ext-to-ext", "ext-to-ext">>
         ELSE <<"ext", "ext">>

\* check_ext_link: <<link type, response status>> for the answer r to the url
check_ext_link(r) ==
    IF r.kind = "error" THEN <<"ext", "error while checking">>
    ELSE IF r.status \in {301, 302, 303, 307}
         THEN <<IF startswith(r.location, root_url) THEN "ext-to-int" ELSE "ext-to-ext",
                status_text(r.status)>>
         ELSE <<"ext", status_text(r.status)>>

\* the links some are discarded for before urljoin
discarded(link) ==
    \/ link \in {<<"#">>, <<"/">>}
    \/ contains(link, "readspeaker") \/ contains(link, "adobe") \/ contains(link, "java")

\* the link after urljoin, with the anchor of an in-scope url taken off
link_url(resp_url, href) ==
    LET link == urljoin(resp_url, href)
    IN  IF startswith(link, root_url) /\ contains(link, "#")
        THEN partition_head(link, "#") ELSE link

link_anchor(resp_url, href) ==
    LET link == urljoin(resp_url, href)
    IN  IF startswith(link, root_url) /\ contains(link, "#")
        THEN partition_tail(link, "#") ELSE None

\* the link_nr of the row of links with this url and anchor, 0 if there is none
link_nr_of(tbl, url, anchor) ==
    IF \E i \in 1..Len(tbl) : tbl[i].url = url /\ tbl[i].anchor = anchor
    THEN Min({i \in 1..Len(tbl) : tbl[i].url = url /\ tbl[i].anchor = anchor})
    ELSE 0

\* a filter that has the test on '.xml' the wrong way round
to_scrape_xml_only(link, done) ==
    /\ link # <<>>
    /\ endswith(link, <<".xml">>)
    /\ startswith(link, root_url)
    /\ link \notin done

\* the link is added to urls_todo at the end of the loop body
to_scrape(link, done) ==
    /\ link # <<>>
    /\ ~endswith(link, <<".xml">>)
    /\ startswith(link, root_url)
    /\ link \notin done

\* One pass of the body of the link loop for one <a> tag. st holds the links and
\* ed_links tables, urls_todo and the urls check_ext_link was called for; ext
\* gives the answer to a request for an external url.
link_step(st, a_tag, resp_url, wcm, page_id, done, ext) ==
    LET href == a_tag.href
        link == link_url(resp_url, href)
        anchor == link_anchor(resp_url, href)
        editorial == a_tag.tree = "editorial"
        found == link_nr_of(st.links, link, anchor)
        external == is_http(link) /\ ~startswith(link, root_url)
        checked == check_ext_link(ext[link])
        link_type == IF ~is_http(link) THEN "None"
                     ELSE IF startswith(link, root_url) THEN "int" ELSE checked[1]
        link_status == IF external THEN checked[2] ELSE "None"
        insert == link # <<>> /\ editorial /\ found = 0
        short_url == insert /\ external /\ link_status = "ext-to-int" /\ link \notin done
        links1 == IF insert
                  THEN Append(st.links, [url |-> link, anchor |-> anchor,
                                         type |-> link_type, status |-> link_status])
                  ELSE st.links
        link_nr == IF found # 0 THEN found ELSE Len(links1)
        ed_links1 == IF link # <<>> /\ editorial
                     THEN Append(st.ed_links, [page_id |-> page_id, link_nr |-> link_nr])
                     ELSE st.ed_links
        todo1 == IF short_url THEN st.todo \cup {link} ELSE st.todo
        todo2 == IF to_scrape(link, done) THEN todo1 \cup {link} ELSE todo1
    IN  IF discarded(href) \/ link = wcm THEN st
        ELSE [links |-> links1, ed_links |-> ed_links1, todo |-> todo2,
              checked |-> IF insert /\ external THEN st.checked \cup {link} ELSE st.checked]

\* the link loop over all <a> tags
RECURSIVE link_loop(_, _, _, _, _, _, _)
link_loop(st, a_tags, resp_url, wcm, page_id, done, ext) ==
    IF a_tags = <<>> THEN st
    ELSE link_loop(link_step(st, Head(a_tags), resp_url, wcm, page_id, done, ext),
                   Tail(a_tags), resp_url, wcm, page_id, done, ext)

\* a fallback to the root of the site instead of the response url
wcm_url_or_root(resp_url, body) ==
    IF body.identifier # None THEN urljoin(resp_url, body.identifier) ELSE root_url

\* the wcm url of a terminal response: the identifier joined to the response
\* url, or the response url when the page has no identifier
wcm_url_of(resp_url, body) ==
    IF body.identifier # None THEN urljoin(resp_url, body.identifier) ELSE resp_url

\* the request is answered by a redirect that the request loop handles
is_redirect(status) == status \in {301, 302}

\* the redirect is saved: request or redirect is in scope
redir_in_scope(req, redir) == startswith(req, root_url) \/ startswith(redir, root_url)

\* urls_done.add
mark_done(done, u) == done \cup {u}

\* the response url is in scope and the page has no DCTERMS.identifier:
\* logging.error('Page without wcm url; falling back to: ...')
logs_fallback(resp_url, body) == startswith(resp_url, root_url) /\ body.identifier = None

\* the condition of the while of scrape_site
loop_continues(todo, scraped, budget) == todo # {} /\ scraped < budget

\* the answers a request for u can get
Answers(u) == IF site[u] = Unknown THEN Responses(u) ELSE {site[u]}

Sat(n, cap) == IF n < cap THEN n + 1 ELSE cap

\* requests.get(req_url, allow_redirects=False) of the request loop is called
Counted ==
    /\ requested' = [requested EXCEPT ![req_url] = Sat(@, RequestCap)]
    /\ num_requests' = Sat(num_requests, MaxBudget + 1)

\* scrape_page returns val to scrape_site, which counts and loops
Return(val) ==
    /\ wcm_url' = val
    /\ urls_scraped' = urls_scraped + 1
    /\ pages_saved' = IF val # None THEN pages_saved + 1 ELSE pages_saved
    /\ pc' = "loop"
    /\ hop' = 0

\* -------------------------------------------------------------- operations

\* scrape_site: req_url = urls_todo.pop(); scrape_page is entered
Pop ==
    /\ UNCHANGED not_crawl
    /\ pc = "loop"
    /\ loop_continues(urls_todo, urls_scraped, max_urls)
    /\ \E u \in urls_todo :
          /\ urls_todo' = urls_todo \ {u}
          /\ req_url' = u
    /\ pc' = "request"
    /\ UNCHANGED <<urls_done, urls_scraped, pages_saved, max_urls, wcm_url, start_urls,
                   site, db, requested, num_requests, hop, no_wcm_url>>

\* scrape_site: the while ends
Finish ==
    /\ UNCHANGED not_crawl
    /\ pc = "loop"
    /\ ~loop_continues(urls_todo, urls_scraped, max_urls)
    /\ pc' = "done"
    /\ UNCHANGED <<urls_todo, urls_done, urls_scraped, pages_saved, max_urls, req_url,
                   wcm_url, start_urls, site, db, requested, num_requests, hop, no_wcm_url>>

\* requests.get raises: nothing in scrape_page or scrape_site catches it
RequestRaises ==
    /\ UNCHANGED not_crawl
    /\ pc = "request"
    /\ RequestError \in Answers(req_url)
    /\ site' = [site EXCEPT ![req_url] = RequestError]
    /\ Counted
    /\ pc' = "crashed"
    /\ UNCHANGED <<urls_todo, urls_done, urls_scraped, pages_saved, max_urls, req_url,
                   wcm_url, start_urls, db, hop, no_wcm_url>>

\* the status is not 200, 301 or 302: logged, None is returned
RequestFails ==
    /\ UNCHANGED not_crawl
    /\ pc = "request"
    /\ \E r \in Answers(req_url) :
          /\ r.kind = "response" /\ r.status # 200 /\ ~is_redirect(r.status)
          /\ site' = [site EXCEPT ![req_url] = r]
    /\ Counted
    /\ urls_done' = mark_done(urls_done, req_url)
    /\ Return(None)
    /\ UNCHANGED <<urls_todo, max_urls, req_url, start_urls, db, no_wcm_url>>

\* status 301 or 302: the redirect is saved and followed when in scope
RequestRedirected ==
    /\ UNCHANGED not_crawl
    /\ pc = "request"
    /\ \E r \in Answers(req_url) :
          /\ r.kind = "response" /\ is_redirect(r.status)
          /\ site' = [site EXCEPT ![req_url] = r]
          /\ redirs' = IF redir_in_scope(req_url, r.location)
                       THEN redir_qry(redirs, req_url, r.location, status_text(r.status))
                       ELSE redirs
          /\ IF startswith(r.location, root_url)
             THEN /\ req_url' = r.location
                  /\ hop' = 1 - hop
                  /\ UNCHANGED <<pc, wcm_url, urls_scraped, pages_saved>>
             ELSE /\ Return(None)
                  /\ UNCHANGED req_url
    /\ Counted
    /\ urls_done' = mark_done(urls_done, req_url)
    /\ UNCHANGED <<urls_todo, max_urls, start_urls, scr_wcm_paths, pages, links, ed_links,
                   no_wcm_url>>

\* status 200 with a <meta http-equiv="refresh">: a client-side redirect
RequestRefreshed ==
    /\ UNCHANGED not_crawl
    /\ pc = "request"
    /\ \E r \in Answers(req_url) :
          /\ r.kind = "response" /\ r.status = 200 /\ r.body.refresh # None
          /\ site' = [site EXCEPT ![req_url] = r]
          /\ LET redir_url == urljoin(req_url, r.body.refresh)
             IN  /\ redirs' = IF redir_in_scope(req_url, redir_url)
                              THEN redir_qry(redirs, req_url, redir_url, "client")
                              ELSE redirs
                 /\ IF startswith(redir_url, root_url)
                    THEN /\ req_url' = redir_url
                         /\ hop' = 1 - hop
                         /\ UNCHANGED <<pc, wcm_url, urls_scraped, pages_saved>>
                    ELSE /\ Return(None)
                         /\ UNCHANGED req_url
    /\ Counted
    /\ urls_done' = mark_done(urls_done, req_url)
    /\ UNCHANGED <<urls_todo, max_urls, start_urls, scr_wcm_paths, pages, links, ed_links,
                   no_wcm_url>>

\* the external urls check_ext_link can be called for
ExtURLs == {u \in Universe : ~startswith(u, root_url)}

\* Status 200 without refresh: the request loop ends. The wcm url is determined,
\* the page is saved under the wcm path and its links are handled.
RequestPage ==
    /\ UNCHANGED not_crawl
    /\ pc = "request"
    /\ \E r \in Answers(req_url) :
       \E ext \in [ExtURLs -> UNION {Answers(x) : x \in ExtURLs}] :
          /\ r.kind = "response" /\ r.status = 200 /\ r.body.refresh = None
          /\ \A x \in ExtURLs : ext[x] \in (IF x = req_url THEN {r} ELSE Answers(x))
          /\ LET resp_url == req_url
                 wcm == wcm_url_of(resp_url, r.body)
                 done1 == mark_done(urls_done, req_url)
                 alias == r.body.identifier # None /\ wcm # resp_url
                 redirs1 == IF alias THEN redir_qry(redirs, resp_url, wcm, "alias")
                            ELSE redirs
                 done2 == IF alias THEN mark_done(done1, wcm) ELSE done1
                 saved == save_page(scr_wcm_paths, pages, split_1(wcm, root_url), r.body)
                 st == link_loop([links |-> links, ed_links |-> ed_links,
                                  todo |-> urls_todo, checked |-> {}],
                                 r.body.a_tags, resp_url, wcm, saved.page_id, done2, ext)
             IN  IF ~startswith(resp_url, root_url)
                 THEN \* out of scope response: logged
                      /\ urls_done' = done1
                      /\ site' = [site EXCEPT ![req_url] = r]
                      /\ Return(None)
                      /\ UNCHANGED <<urls_todo, db>>
                 ELSE IF ~split_has_1(wcm, root_url)
                 THEN \* wcm_url.split(root_url)[1] raises IndexError
                      /\ urls_done' = done2
                      /\ redirs' = redirs1
                      /\ site' = [site EXCEPT ![req_url] = r]
                      /\ pc' = "crashed"
                      /\ UNCHANGED <<urls_todo, urls_scraped, pages_saved, wcm_url,
                                     scr_wcm_paths, pages, links, ed_links, hop>>
                 ELSE IF saved.page_id = 0
                 THEN \* page was saved and handled earlier during this scrape
                      /\ urls_done' = done2
                      /\ redirs' = redirs1
                      /\ site' = [site EXCEPT ![req_url] = r]
                      /\ Return(None)
                      /\ UNCHANGED <<urls_todo, scr_wcm_paths, pages, links, ed_links>>
                 ELSE /\ urls_done' = done2
                      /\ redirs' = redirs1
                      /\ scr_wcm_paths' = saved.paths
                      /\ pages' = saved.pages
                      /\ links' = st.links
                      /\ ed_links' = st.ed_links
                      /\ urls_todo' = st.todo
                      /\ site' = [u \in Universe |->
                                     IF u = req_url THEN r
                                     ELSE IF u \in st.checked THEN ext[u] ELSE site[u]]
                      /\ Return(wcm)
          /\ no_wcm_url' = IF logs_fallback(req_url, r.body)
                           THEN no_wcm_url \cup {req_url} ELSE no_wcm_url
    /\ Counted
    /\ UNCHANGED <<max_urls, req_url, start_urls>>

Next ==
    \/ Pop
    \/ Finish
    \/ RequestRaises
    \/ RequestFails
    \/ RequestRedirected
    \/ RequestRefreshed
    \/ RequestPage

Spec == Init /\ [][Next]_vars

\* The crawls from one start url, under the scheduling of a sequential
\* program: it takes its next step.
OneStartInit == Init /\ Cardinality(start_urls) = 1

FairSpec == OneStartInit /\ [][Next]_vars /\ WF_vars(Next)

\* ------------------------------------------------------------------ claims

\* the request loop has requested u
Requested(u) == requested[u] > 0

\* u answered with status 200 and no refresh: a terminal response
Terminal(u) ==
    site[u].kind = "response" /\ site[u].status = 200 /\ site[u].body.refresh = None

\* u was requested by the request loop and the request failed
FailedFetch(u) ==
    /\ Requested(u)
    /\ \/ site[u].kind = "error"
       \/ site[u].kind = "response" /\ site[u].status \notin {200, 301, 302}

\* C1: during one crawl no url is the target of more than one requests.get of
\* the request loop.
C1_NoUrlRequestedTwice == \A u \in Universe : requested[u] <= 1

\* the url a stored page is known by: root_url followed by its wcm path
PageUrl(row) == root_url \o scr_wcm_paths[row.page_id]

\* the urls that occur as a link on a stored page and are not filtered out
LinksOn(row) ==
    {l \in {link_url(PageUrl(row), row.doc.a_tags[i].href) : i \in 1..Len(row.doc.a_tags)} :
        /\ \E i \in 1..Len(row.doc.a_tags) :
              /\ l = link_url(PageUrl(row), row.doc.a_tags[i].href)
              /\ row.doc.a_tags[i].href \notin {<<"#">>, <<"/">>}
              /\ \A w \in {"readspeaker", "adobe", "java"} :
                    ~contains(row.doc.a_tags[i].href, w)
        /\ l # <<>>
        /\ l[Len(l)] # ".xml"
        /\ l # PageUrl(row)}

\* C2: when the while of scrape_site ends with urls_todo empty, every in-scope
\* url that occurs as a link on a stored page and is not filtered out is in
\* urls_done.
C2_NoMissedVisits ==
    (pc = "done" /\ urls_todo = {}) =>
        \A row \in pages : \A l \in LinksOn(row) :
            startswith(l, root_url) => l \in urls_done

\* a crawl that ended below its budget after it requested a url that it found
\* as a link only
C2_Witness ==
    /\ pc = "done" /\ urls_todo = {} /\ urls_scraped < max_urls
    /\ \E row \in pages : \E l \in LinksOn(row) :
          /\ startswith(l, root_url)
          /\ l \notin start_urls
          /\ Requested(l)
          /\ \A q \in redirs : q.redir_url # l

\* C3: between two iterations of the while of scrape_site no url is in both
\* urls_todo and urls_done.
C3_FrontierDisjoint == pc = "loop" => urls_todo \cap urls_done = {}

\* C4: a url whose request failed (requests.get raised, or the status is not
\* 200, 301 or 302) is in urls_done, no redirect is stored for it and the
\* crawl has not been aborted by it.
C4_FailSoftFetching ==
    \A u \in Universe :
        FailedFetch(u) =>
            /\ u \in urls_done
            /\ \A q \in redirs : q.req_url # u
            /\ ~(pc = "crashed" /\ req_url = u)

\* C5: every crawl ends: the while of scrape_site is left (or the run is
\* aborted by an exception), whatever redirects the site answers with.
C5_CrawlTerminates == <>(pc \in {"done", "crashed"})

\* C6: the number of requests of the request loop, redirect hops included,
\* never exceeds max_urls.
C6_BudgetBoundsRequests == num_requests <= max_urls

\* u was requested and answered with a terminal response that is in scope:
\* a visit that resolves to a wcm url
Visited(u) == Requested(u) /\ Terminal(u) /\ startswith(u, root_url)

\* the wcm url that the visit of u resolves to
WcmOf(u) == wcm_url_of(u, site[u].body)

\* the rows of scr_wcm_paths with this path
RowsOf(path) == {i \in 1..Len(scr_wcm_paths) : scr_wcm_paths[i] = path}

DuplicateVisit ==
    /\ pc = "request"
    /\ site'[req_url].kind = "response" /\ site'[req_url].status = 200
    /\ site'[req_url].body.refresh = None
    /\ startswith(req_url, root_url)
    /\ split_has_1(wcm_url_of(req_url, site'[req_url].body), root_url)
    /\ RowsOf(split_1(wcm_url_of(req_url, site'[req_url].body), root_url)) # {}

\* C8: a visit that resolves to a wcm path already stored returns None and
\* leaves pages, scr_wcm_paths, links, ed_links and urls_todo unchanged; no
\* step changes or removes a stored page, path binding or redirect row.
C8_WriteOnce ==
    [][ /\ DuplicateVisit =>
              /\ wcm_url' = None /\ pc' = "loop"
              /\ UNCHANGED <<pages, scr_wcm_paths, links, ed_links, urls_todo>>
        /\ pages \subseteq pages'
        /\ redirs \subseteq redirs'
        /\ Len(scr_wcm_paths) <= Len(scr_wcm_paths')
        /\ SubSeq(scr_wcm_paths', 1, Len(scr_wcm_paths)) = scr_wcm_paths
      ]_vars

\* a visit has returned None because its wcm path was stored by an earlier
\* visit of another url, whose page has another document
C8_Witness ==
    /\ pc = "loop" /\ wcm_url = None /\ urls_scraped >= 2 /\ req_url \in Universe
    /\ Visited(req_url)
    /\ split_has_1(WcmOf(req_url), root_url)
    /\ \E row \in pages :
          /\ scr_wcm_paths[row.page_id] = split_1(WcmOf(req_url), root_url)
          /\ row.doc # site[req_url].body
    /\ redirs # {} /\ Len(links) > 0

\* the site is the one of the scenario and the crawl started from /home
InScenario ==
    /\ start_urls = {Home}
    /\ \E i \in {None, Home} : \A u \in {Home, A, AFinal} : site[u] = ScenarioSite(i)[u]

\* the scenario ends with two stored pages, /home and /a-canonical, the server
\* redirect /a -> /a-final and the alias /a-final -> /a-canonical as the only
\* redirects and the link to https://other.org/x stored as external; that url
\* is never in urls_todo
ScenarioResult ==
    InScenario =>
        /\ X \notin urls_todo
        /\ (pc = "done" /\ max_urls >= 2) =>
              /\ Range(scr_wcm_paths) = {<<"/", "home">>, <<"/", "a-canonical">>}
              /\ Len(scr_wcm_paths) = 2 /\ Cardinality(pages) = 2
              /\ redirs = {[req_url |-> A, redir_url |-> AFinal, redir_type |-> "301"],
                           [req_url |-> AFinal, redir_url |-> ACanon, redir_type |-> "alias"]}
              /\ \E i \in 1..Len(links) :
                    links[i].url = X /\ links[i].type \in {"ext", "ext-to-int", "ext-to-ext"}

\* C9: every 3xx response to an in-scope request is stored as a server redirect
\* (requested url -> Location) and the request loop goes on at the Location when
\* that is in scope; a terminal page whose identifier differs from its url adds
\* an alias and is stored under the wcm path; the scenario ends as described.
C9_RedirectChainRecording ==
    /\ \A u \in Universe :
          (/\ Requested(u) /\ startswith(u, root_url)
           /\ site[u].kind = "response" /\ site[u].status \in 300..399) =>
             /\ [req_url |-> u, redir_url |-> site[u].location,
                 redir_type |-> status_text(site[u].status)] \in redirs
             /\ startswith(site[u].location, root_url) =>
                   \/ Requested(site[u].location)
                   \/ pc = "request" /\ req_url = site[u].location
    /\ \A u \in Universe :
          (Visited(u) /\ WcmOf(u) # u) =>
             /\ [req_url |-> u, redir_url |-> WcmOf(u), redir_type |-> "alias"] \in redirs
             /\ split_has_1(WcmOf(u), root_url)
             /\ RowsOf(split_1(WcmOf(u), root_url)) # {}
    /\ ScenarioResult

\* C10: no row of redirs, of whatever type, has its req_url as redir_url.
C10_NoSelfRedirect == \A q \in redirs : q.req_url # q.redir_url

\* ---------------------------------------------------------------- id_tables

\* SQL NULL in an id column
NULL == 0

\* replace(url, root_url, ''): the url without its occurrences of root_url
RECURSIVE replace_root(_)
replace_root(url) ==
    IF url = <<>> THEN <<>>
    ELSE IF startswith(url, root_url)
         THEN replace_root(SubSeq(url, Len(root_url) + 1, Len(url)))
         ELSE <<Head(url)>> \o replace_root(Tail(url))

\* SELECT page_id FROM scr_wcm_paths WHERE path = p
page_id_of(paths, p) ==
    IF p \in Range(paths) THEN CHOOSE i \in 1..Len(paths) : paths[i] = p ELSE NULL

\* SELECT page_id FROM scr_wcm_paths WHERE url = root_url || path
url_id_of(paths, url) ==
    IF \E i \in 1..Len(paths) : root_url \o paths[i] = url
    THEN CHOOSE i \in 1..Len(paths) : root_url \o paths[i] = url
    ELSE NULL

\* the four updates of the links table, for one row
id_link(row, paths) ==
    LET url1 == IF startswith(row.url, root_url) THEN replace_root(row.url) ELSE row.url
        link_id == page_id_of(paths, url1)
        url2 == IF link_id # NULL THEN None ELSE url1
        reform == url2 # None /\ startswith(url2, <<"/">>)
    IN  [url |-> IF reform
                 THEN root_url \o url2
                      \o (IF row.anchor = None THEN <<>> ELSE <<"#">> \o row.anchor)
                 ELSE url2,
         anchor |-> IF reform THEN None ELSE row.anchor,
         link_id |-> link_id,
         type |-> row.type,
         status |-> row.status]

\* the two updates of the redirs table, for one row
id_redir(row, paths) ==
    LET req_id == url_id_of(paths, row.req_url)
        redir_id == url_id_of(paths, row.redir_url)
    IN  [req_id |-> req_id,
         req_url |-> IF req_id # NULL THEN None ELSE row.req_url,
         redir_id |-> redir_id,
         redir_url |-> IF redir_id # NULL THEN None ELSE row.redir_url,
         redir_type |-> row.redir_type]

\* The chains of the view redirs_to_cms: the redir_id of the alias row that the
\* chain from row r comes to, NULL when it comes to none. req_url is unique, so
\* a chain has one next row at most; the join stops at a row without redir_url.
\* A chain that is a cycle has no end in the view; n bounds the rows followed.
RECURSIVE chain_to_alias(_, _, _)
chain_to_alias(tbl, r, n) ==
    IF r.redir_type = "alias" THEN r.redir_id
    ELSE IF n = 0 \/ r.redir_url = None THEN NULL
    ELSE IF \E q \in tbl : q.req_url = r.redir_url
         THEN chain_to_alias(tbl, CHOOSE q \in tbl : q.req_url = r.redir_url, n - 1)
         ELSE NULL

\* the rows of the view redirs_to_cms over the redirs table tbl
redirs_to_cms(tbl) ==
    {[req_url |-> r.req_url,
      cms_id |-> IF chain_to_alias(tbl, r, Cardinality(tbl)) # NULL
                 THEN chain_to_alias(tbl, r, Cardinality(tbl))
                 ELSE r.redir_id] : r \in {q \in tbl : q.req_url # None}}

\* id_tables is called when the while of scrape_site has ended: the urls in
\* links and redirs are converted to page_id's where possible
id_tables ==
    /\ UNCHANGED not_crawl
    /\ pc = "done"
    /\ links' = [i \in 1..Len(links) |-> id_link(links[i], scr_wcm_paths)]
    /\ redirs' = {id_redir(row, scr_wcm_paths) : row \in redirs}
    /\ pc' = "identified"
    /\ UNCHANGED <<urls_todo, urls_done, urls_scraped, pages_saved, max_urls, req_url,
                   wcm_url, start_urls, site, scr_wcm_paths, pages, ed_links,
                   requested, num_requests, hop, no_wcm_url>>

IdNext == Next \/ id_tables

\* a crawl from one start url, followed by id_tables
IdSpec == OneStartInit /\ [][IdNext]_vars

\* C11: after id_tables every link whose url is in scope and is the requested
\* side of a redirect chain that ends at a stored page has the page_id of that
\* page as link_id, and a link whose url is the url of a stored page has the
\* page_id of that page.
C11_LinkResolution ==
    [][ (pc = "done" /\ pc' = "identified") =>
            \A i \in 1..Len(links) :
                startswith(links[i].url, root_url) =>
                    /\ url_id_of(scr_wcm_paths, links[i].url) # NULL =>
                          links'[i].link_id = url_id_of(scr_wcm_paths, links[i].url)
                    /\ \A v \in redirs_to_cms(redirs') :
                          (v.req_url = links[i].url /\ v.cms_id # NULL) =>
                             links'[i].link_id = v.cms_id
      ]_vars

\* id_tables has run on the scenario of the design document: the link to /a
\* on /home has no link_id, the view resolves /a to the page /a-canonical
ScenarioLinkUnresolved ==
    (InScenario /\ pc = "identified" /\ max_urls >= 2) =>
        \E i \in 1..Len(links) :
            /\ links[i].url = A /\ links[i].link_id = NULL
            /\ \E v \in redirs_to_cms(redirs) :
                  v.req_url = A /\ v.cms_id = page_id_of(scr_wcm_paths, <<"/", "a-canonical">>)

\* ------------------------------------------------------------ sync_page_ids

\* a scrape database has two pages at most
MaxPages == 2

\* the wcm paths of the scrape databases, in the order of ORDER BY path
SortedPaths == << <<"/", "a">>, <<"/", "a-canonical">>, <<"/", "home">> >>

Paths == Range(SortedPaths)

\* the columns with a name LIKE '%_id' of the tables of the scrape database,
\* in the order of sqlite_master
Columns ==
    << "scr_wcm_paths.page_id", "pages.page_id", "redirs.req_id", "redirs.redir_id",
       "links.link_id", "ed_links.page_id", "pages_info.page_id" >>

\* the columns among them that are PRIMARY KEY or UNIQUE
UniqueColumns ==
    {"scr_wcm_paths.page_id", "pages.page_id", "redirs.req_id", "pages_info.page_id"}

\* the sequences without repetition over S of length n
InjSeqs(S, n) == {q \in [1..n -> S] : \A i, j \in 1..n : q[i] = q[j] => i = j}

\* The id columns of a scrape database with n pages as scrape_site leaves it:
\* page_id's 1..n in scr_wcm_paths, pages and pages_info; link_id, req_id and
\* redir_id a page_id or NULL; ed_links.page_id a page_id.
ScrapeIds(n) ==
    {[c \in Range(Columns) |->
        CASE c \in {"scr_wcm_paths.page_id", "pages.page_id", "pages_info.page_id"} ->
                 [i \in 1..n |-> i]
          [] c = "redirs.req_id" -> rd[1]
          [] c = "redirs.redir_id" -> rd[2]
          [] c = "links.link_id" -> lk
          [] c = "ed_links.page_id" -> ed] :
        rd \in { << <<>>, <<>> >>, << <<1, NULL>>, <<NULL, n>> >>, << <<n>>, <<1>> >> },
        lk \in { <<NULL>>, <<1, NULL, n>> },
        ed \in { <<n>>, <<1, n, 1>> }}

\* a lookup that gives the first page_id for every path the master table has
mst_id_first(mst, path) == IF path \in Range(mst) THEN 1 ELSE NULL

\* the page_id of the path in the master table, NULL when it has none
mst_id(mst, path) ==
    IF path \in Range(mst) THEN Min({i \in 1..Len(mst) : mst[i] = path}) ELSE NULL

\* the paths of S in the order of ORDER BY path
RECURSIVE ordered(_, _)
ordered(S, k) ==
    IF k > Len(SortedPaths) THEN <<>>
    ELSE (IF SortedPaths[k] \in S THEN <<SortedPaths[k]>> ELSE <<>>) \o ordered(S, k + 1)

\* new_scr_pages: the paths of the scrape that the master table has not
new_scr_pages(paths, mst) == ordered({p \in Range(paths) : mst_id(mst, p) = NULL}, 1)

\* an insert that puts the new rows before the rows of the table
insert_paths_first(mst, new) == new \o mst

\* INSERT INTO mst_wcm_paths (path): page_id is AUTOINCREMENT
insert_paths(mst, new) == mst \o new

\* an id_trans that counts on from the page_id of the scrape, without the
\* master table
id_trans_counting(ids, paths, mst) ==
    {[old_id |-> -ids[i], new_id |-> ids[i] + 1] : i \in 1..Len(paths)}

\* CREATE TEMP TABLE id_trans
id_trans_of(ids, paths, mst) ==
    {[old_id |-> -ids[i], new_id |-> mst_id(mst, paths[i])] : i \in 1..Len(paths)}

\* a first update that leaves the values as they are
negate_not(col) == col

\* UPDATE table SET column = -column; -NULL is NULL
negate(col) == [i \in 1..Len(col) |-> IF col[i] = NULL THEN NULL ELSE -col[i]]

\* UPDATE table SET column = (SELECT new_id FROM id_trans WHERE column = old_id)
rewrite(col, trans) ==
    [i \in 1..Len(col) |->
        IF col[i] # NULL /\ \E t \in trans : t.old_id = col[i]
        THEN (CHOOSE t \in trans : t.old_id = col[i]).new_id
        ELSE NULL]

\* a connection that is closed within the transaction and keeps what was written
rollback_nothing(saved, written) == written

\* the connection is closed within the transaction: sqlite rolls it back
rollback(saved, written) == saved

\* no call of sync_page_ids is running
SyncAtRest == sync_pc \in {"idle", "synced", "failed"}

\* scrape_site has made a scrape database: surrogate page_id's
NewSnapshot ==
    /\ SyncAtRest
    /\ \E n \in 1..MaxPages :
          /\ path_col' \in InjSeqs(Paths, n)
          /\ id_cols' \in ScrapeIds(n)
    /\ universal_page_ids' = "no"
    /\ sync_pc' = "idle"
    /\ retried' = FALSE
    /\ before' = id_cols'
    /\ fresh' = id_cols'
    /\ id_trans' = {}
    /\ col_nr' = 0
    /\ UNCHANGED mst_wcm_paths
    /\ UNCHANGED not_sync

\* sync_page_ids up to BEGIN TRANSACTION: the new paths are added to the master
\* table and id_trans is made
SyncBegin ==
    /\ SyncAtRest
    /\ mst_wcm_paths' = insert_paths(mst_wcm_paths, new_scr_pages(path_col, mst_wcm_paths))
    /\ id_trans' = id_trans_of(id_cols["scr_wcm_paths.page_id"], path_col, mst_wcm_paths')
    /\ before' = id_cols
    /\ sync_pc' = "negate"
    /\ col_nr' = 1
    /\ UNCHANGED <<path_col, id_cols, universal_page_ids, retried, fresh>>
    /\ UNCHANGED not_sync

\* the first update of the loop body
Negate ==
    /\ sync_pc = "negate"
    /\ id_cols' = [id_cols EXCEPT ![Columns[col_nr]] = negate(@)]
    /\ sync_pc' = "rewrite"
    /\ UNCHANGED <<mst_wcm_paths, path_col, universal_page_ids, id_trans, before, col_nr,
                   retried, fresh>>
    /\ UNCHANGED not_sync

\* the second update of the loop body
Rewrite ==
    /\ sync_pc = "rewrite"
    /\ id_cols' = [id_cols EXCEPT ![Columns[col_nr]] = rewrite(@, id_trans)]
    /\ IF col_nr < Len(Columns)
       THEN sync_pc' = "negate" /\ col_nr' = col_nr + 1
       ELSE sync_pc' = "commit" /\ col_nr' = col_nr
    /\ UNCHANGED <<mst_wcm_paths, path_col, universal_page_ids, id_trans, before, retried,
                   fresh>>
    /\ UNCHANGED not_sync

\* COMMIT TRANSACTION, and the parameter universal_page_ids is set
Commit ==
    /\ sync_pc = "commit"
    /\ universal_page_ids' = "yes"
    /\ sync_pc' = "synced"
    /\ id_trans' = {}
    /\ UNCHANGED <<mst_wcm_paths, path_col, id_cols, before, col_nr, retried, fresh>>
    /\ UNCHANGED not_sync

\* a statement between BEGIN and COMMIT TRANSACTION raises, or the process is
\* ended: the connection is closed with the transaction open
SyncFails ==
    /\ sync_pc \in {"negate", "rewrite", "commit"}
    /\ id_cols' = rollback(before, id_cols)
    /\ id_trans' = {}
    /\ sync_pc' = "failed"
    /\ retried' = TRUE
    /\ UNCHANGED <<mst_wcm_paths, path_col, universal_page_ids, before, col_nr, fresh>>
    /\ UNCHANGED not_sync

SyncNext == NewSnapshot \/ SyncBegin \/ Negate \/ Rewrite \/ Commit \/ SyncFails

\* The master database as create_master_db makes it and a first scrape database.
SyncInit ==
    /\ CrawlOff
    /\ HistOff
    /\ DeriveOff
    /\ TreeOff
    /\ mst_wcm_paths = <<>>
    /\ \E n \in 1..MaxPages :
          /\ path_col \in InjSeqs(Paths, n)
          /\ id_cols \in ScrapeIds(n)
    /\ universal_page_ids = "no"
    /\ id_trans = {}
    /\ before = id_cols
    /\ sync_pc = "idle"
    /\ col_nr = 0
    /\ retried = FALSE
    /\ fresh = id_cols

\* scrape databases are made and synchronised with one master database
SyncSpec == SyncInit /\ [][SyncNext]_vars

\* s is the first part of t
IsPrefix(s, t) == Len(s) <= Len(t) /\ SubSeq(t, 1, Len(s)) = s

\* C12: over the runs of sync_page_ids the master table mst_wcm_paths only
\* grows: every row keeps its page_id and its path, and no path has two rows.
C12_StableIdentities ==
    [][ /\ IsPrefix(mst_wcm_paths, mst_wcm_paths')
        /\ \A i, j \in 1..Len(mst_wcm_paths') :
              mst_wcm_paths'[i] = mst_wcm_paths'[j] => i = j
      ]_vars

\* a scrape database with a path the master table had and a path it did not
\* have has been synchronised: the master table was filled by several runs
C12_Witness ==
    /\ sync_pc = "synced"
    /\ mst_wcm_paths = << <<"/", "a-canonical">>, <<"/", "a">>, <<"/", "home">> >>
    /\ path_col = << <<"/", "home">>, <<"/", "a-canonical">> >>
    /\ id_cols["scr_wcm_paths.page_id"] = <<3, 1>>

\* the path of the row of scr_wcm_paths with page_id v
designated(ids, paths, v) ==
    IF \E i \in 1..Len(paths) : ids[i] = v
    THEN paths[CHOOSE i \in 1..Len(paths) : ids[i] = v]
    ELSE None

\* C13: when sync_page_ids has completed, every row of scr_wcm_paths has the
\* page_id that the master table has for its path, and every value of every id
\* column designates the path that it designated before the call; a NULL is
\* still NULL.
C13_IdentityRewrite ==
    sync_pc = "synced" =>
        /\ \A i \in 1..Len(path_col) :
              /\ id_cols["scr_wcm_paths.page_id"][i] # NULL
              /\ id_cols["scr_wcm_paths.page_id"][i] = mst_id(mst_wcm_paths, path_col[i])
        /\ \A c \in Range(Columns) :
              /\ Len(id_cols[c]) = Len(before[c])
              /\ \A i \in 1..Len(before[c]) :
                    IF before[c][i] = NULL THEN id_cols[c][i] = NULL
                    ELSE /\ id_cols[c][i] # NULL
                         /\ designated(id_cols["scr_wcm_paths.page_id"], path_col, id_cols[c][i])
                            = designated(before["scr_wcm_paths.page_id"], path_col, before[c][i])

\* a run has completed in which the surrogate page_id of one page is the
\* universal page_id of another page and a link_id is NULL
C13_Witness ==
    /\ sync_pc = "synced"
    /\ \E i, j \in 1..Len(path_col) :
          /\ i # j
          /\ before["scr_wcm_paths.page_id"][i] = id_cols["scr_wcm_paths.page_id"][j]
          /\ before["scr_wcm_paths.page_id"][i] # id_cols["scr_wcm_paths.page_id"][i]
    /\ \E k \in 1..Len(id_cols["links.link_id"]) : id_cols["links.link_id"][k] = NULL
    /\ \E k \in 1..Len(id_cols["links.link_id"]) : id_cols["links.link_id"][k] # NULL

\* the id columns that a run of sync_page_ids that is not disturbed ends with
Undisturbed ==
    [c \in Range(Columns) |->
        rewrite(negate(fresh[c]),
                id_trans_of(fresh["scr_wcm_paths.page_id"], path_col, mst_wcm_paths))]

\* C14: when sync_page_ids fails between BEGIN and COMMIT TRANSACTION every id
\* column has the values from before the call, and a later call ends in the
\* state that a call that did not fail ends in: the same id columns, and no
\* other rows in the master table than the failed call added.
C14_AllOrNothing ==
    [][ /\ sync_pc' = "failed" => id_cols' = before'
        /\ (sync_pc' = "synced" /\ retried') => id_cols' = Undisturbed'
        /\ (sync_pc = "failed" /\ sync_pc' = "negate") => UNCHANGED mst_wcm_paths
      ]_vars

\* a call that failed after some columns were rewritten has been repeated and
\* has completed; the page_id's are not the surrogate ones
C14_Witness ==
    /\ sync_pc = "synced" /\ retried
    /\ id_cols # fresh
    /\ Len(path_col) = 2
    /\ Len(mst_wcm_paths) = 3

\* ---------------------------------------------------------- compile_history

\* scrape databases made in one behaviour
MaxScrapes == 3

\* calls of compile_history on one scrape database
MaxCalls == 2

\* the scrape types that have a history table
Cadences == {"weekly", "monthly"}

\* '/'.join(scrape_type) of scrape_site
RECURSIVE join_slash(_)
join_slash(tags) ==
    IF Len(tags) <= 1 THEN tags ELSE <<Head(tags), "/">> \o join_slash(Tail(tags))

\* scrape_type.split('/')
RECURSIVE split_slash(_)
split_slash(s) ==
    IF s = <<>> THEN <<>>
    ELSE IF Head(s) = "/" THEN split_slash(Tail(s))
    ELSE <<Head(s)>> \o split_slash(Tail(s))

\* A timestamp 'yymmdd-hhmm' is <<yy, mm, dd, hh, mm>>; the order of the
\* strings is the order of these sequences.
RECURSIVE ts_lt(_, _)
ts_lt(a, b) ==
    /\ a # <<>>
    /\ \/ a[1] < b[1]
       \/ a[1] = b[1] /\ ts_lt(Tail(a), Tail(b))

ts_le(a, b) == a = b \/ ts_lt(a, b)

\* the days of the scrapes: Monday and Sunday of the weeks 2020-W53, 2021-W01,
\* Monday of 2021-W02 and 2021-W03, and Monday the first of February
Mon53 == <<20, 12, 28, 6, 0>>
Sun53 == <<21, 1, 3, 23, 0>>
Mon01 == <<21, 1, 4, 6, 0>>
Sun01 == <<21, 1, 10, 6, 0>>
Mon02 == <<21, 1, 11, 6, 0>>
Mon03 == <<21, 1, 18, 6, 0>>
Jan31 == <<21, 1, 31, 6, 0>>
Feb01 == <<21, 2, 1, 6, 0>>

\* the timestamps of scrapes in four successive weeks
WeekStamps == {Mon53, Mon01, Mon02, Mon03}

Stamps == {Mon53, Sun53, Mon01, Sun01, Mon02, Jan31, Feb01}

\* the date arithmetic of datetime: proleptic Gregorian ordinals, day 1 is
\* Monday 1 January of year 1
is_leap(y) == y % 4 = 0 /\ (y % 100 # 0 \/ y % 400 = 0)

days_before_year(y) == (y - 1) * 365 + (y - 1) \div 4 - (y - 1) \div 100 + (y - 1) \div 400

days_in_month(y, m) ==
    IF m = 2 THEN (IF is_leap(y) THEN 29 ELSE 28)
    ELSE IF m \in {4, 6, 9, 11} THEN 30 ELSE 31

RECURSIVE days_before_month(_, _)
days_before_month(y, m) ==
    IF m = 1 THEN 0 ELSE days_before_month(y, m - 1) + days_in_month(y, m - 1)

ymd2ord(y, m, d) == days_before_year(y) + days_before_month(y, m) + d

\* the years the days of the model are in
Years == 2019..2023

ord2year(n) == CHOOSE y \in Years : days_before_year(y) < n /\ n <= days_before_year(y + 1)

ord2month(n) ==
    CHOOSE m \in 1..12 :
        /\ days_before_month(ord2year(n), m) < n - days_before_year(ord2year(n))
        /\ n - days_before_year(ord2year(n))
              <= days_before_month(ord2year(n), m) + days_in_month(ord2year(n), m)

\* the Monday of ISO week 1 of the year
isoweek1monday(y) ==
    LET firstday == ymd2ord(y, 1, 1)
        firstweekday == (firstday + 6) % 7
        week1monday == firstday - firstweekday
    IN  IF firstweekday > 3 THEN week1monday + 7 ELSE week1monday

\* dt.isocalendar()[:2]: ISO year and ISO week of day n
isocalendar(n) ==
    LET year == ord2year(n)
        week == (n - isoweek1monday(year)) \div 7
    IN  IF week < 0
        THEN <<year - 1, (n - isoweek1monday(year - 1)) \div 7 + 1>>
        ELSE IF week >= 52 /\ n >= isoweek1monday(year + 1)
             THEN <<year + 1, 1>>
             ELSE <<year, week + 1>>

\* datetime.fromisocalendar(year, week, day)
fromisocalendar(year, week, day) == isoweek1monday(year) + (week - 1) * 7 + (day - 1)

\* timestamp_to_dt: the day and the minute of the day
timestamp_to_dt(ts) ==
    [day |-> ymd2ord(2000 + ts[1], ts[2], ts[3]), minute |-> ts[4] * 60 + ts[5]]

\* dt + timedelta(days=n)
plus_days(dt, n) == [day |-> dt.day + n, minute |-> dt.minute]

\* first_dow: start of Monday in the same week
first_dow(dt) ==
    [day |-> fromisocalendar(isocalendar(dt.day)[1], isocalendar(dt.day)[2], 1), minute |-> 0]

\* first_dom: start of the first day in the same month
first_dom(dt) ==
    [day |-> ymd2ord(ord2year(dt.day), ord2month(dt.day), 1), minute |-> 0]

\* the tracked attributes: the columns of pages_info other than page_id
page_aspects == <<"title", "description">>

InfoRow(p, title, description) == [page_id |-> p, title |-> title, description |-> description]

HistRow(ts, p, title, description, life) ==
    [timestamp |-> ts, page_id |-> p, title |-> title, description |-> description,
     life |-> life]

\* a scrape database with universal page_id's: scr_wcm_paths, pages and
\* pages_info have a row for every page
ScrapeDb(ts, tags, infos) ==
    [timestamp |-> ts, scrape_type |-> join_slash(tags),
     scr_wcm_paths |-> {i.page_id : i \in infos},
     pages |-> {i.page_id : i \in infos},
     pages_info |-> infos]

\* SELECT max(timestamp) FROM page_hist; None when the table is empty
max_timestamp(hist) ==
    IF hist = {} THEN None
    ELSE CHOOSE t \in {r.timestamp : r \in hist} : \A r \in hist : ts_le(r.timestamp, t)

former_pages(hist) == {r.page_id : r \in hist}

\* the view new_pages, evaluated on the history table as it is
new_pages(scr, hist) == {p \in scr.scr_wcm_paths : p \notin former_pages(hist)}

\* a first insert for every page of the scrape
births_of_all(scr, hist) ==
    {HistRow(scr.timestamp, i.page_id, i.title, i.description, 1) : i \in scr.pages_info}

\* the rows of the first insert: new pages with life value 1
births(scr, hist) ==
    {HistRow(scr.timestamp, i.page_id, i.title, i.description, 1) :
        i \in {j \in scr.pages_info : j.page_id \in new_pages(scr, hist)}}

\* last_value(col) OVER (PARTITION BY page_id ORDER BY col ISNULL, timestamp):
\* the value of the latest row in which col is not NULL
last_value(hist, p, col, null) ==
    LET rows == {r \in hist : r.page_id = p}
        known == {r \in rows : r[col] # null}
        part == IF known # {} THEN known ELSE rows
    IN  IF part = {} THEN null
        ELSE (CHOOSE r \in part : \A q \in part : ts_le(q.timestamp, r.timestamp))[col]

\* a selection of the pages that have a life value at all
latest_living_or_dead(hist) == {p \in former_pages(hist) : last_value(hist, p, "life", NULL) # NULL}

latest_living(hist) == {p \in former_pages(hist) : last_value(hist, p, "life", NULL) > 0}

\* the rows of the second insert: the life value of pages that died is negated
deaths(scr, hist) ==
    {HistRow(scr.timestamp, p, None, None, -last_value(hist, p, "life", NULL)) :
        p \in {q \in latest_living(hist) : q \notin scr.pages}}

\* a comparison that takes every value as changed
changed_always(scr_val, his_val) == scr_val

\* CASE WHEN scr.aspect = his.aspect THEN NULL ELSE scr.aspect END
changed(scr_val, his_val) ==
    IF scr_val # None /\ scr_val = his_val THEN None ELSE scr_val

\* a life value for every page that has one in history, living or not
revived_living(his_life) == IF his_life # NULL THEN (IF his_life < 0 THEN -his_life + 1 ELSE his_life) ELSE NULL

\* a life value for a page that reappears without the increment
revived_same(his_life) == IF his_life < 0 THEN -his_life ELSE NULL

\* CASE WHEN his.life < 0 THEN -his.life + 1 ELSE NULL END
revived(his_life) == IF his_life < 0 THEN -his_life + 1 ELSE NULL

changed_pages(scr, hist) ==
    {HistRow(scr.timestamp, i.page_id,
             changed(i.title, last_value(hist, i.page_id, "title", None)),
             changed(i.description, last_value(hist, i.page_id, "description", None)),
             revived(last_value(hist, i.page_id, "life", NULL))) :
        i \in {j \in scr.pages_info : j.page_id \notin new_pages(scr, hist)}}

\* the rows of the third insert
changes(scr, hist) ==
    {r \in changed_pages(scr, hist) :
        r.title # None \/ r.description # None \/ r.life # NULL}

\* the insert violates PRIMARY KEY (timestamp, page_id)
clash(hist, rows) ==
    \E r \in rows : \E h \in hist : r.timestamp = h.timestamp /\ r.page_id = h.page_id

\* The three inserts for one scrape type. A statement that violates the primary
\* key raises and inserts nothing; the statements before it are committed.
add_history(hist, scr) ==
    LET b == births(scr, hist)
        h1 == hist \cup b
        d == deaths(scr, h1)
        h2 == h1 \cup d
        c == changes(scr, h2)
    IN  IF clash(hist, b) THEN [hist |-> hist, raised |-> TRUE]
        ELSE IF clash(h1, d) THEN [hist |-> h1, raised |-> TRUE]
        ELSE IF clash(h2, c) THEN [hist |-> h2, raised |-> TRUE]
        ELSE [hist |-> h2 \cup c, raised |-> FALSE]

\* the test on the week of the last scrape in history
weekly_ok(lst_ts, timestamp) ==
    first_dow(plus_days(timestamp_to_dt(lst_ts), 7)) = first_dow(timestamp_to_dt(timestamp))

\* the test on the month of the last scrape in history
monthly_ok(lst_ts, timestamp) ==
    first_dom(plus_days(timestamp_to_dt(lst_ts), 31)) = first_dom(timestamp_to_dt(timestamp))

\* no test on the timestamp of the last scrape in history
not_after_last_never(lst_ts, timestamp) == FALSE

\* the test if the scrape is after the last in history
not_after_last(lst_ts, timestamp) == lst_ts # None /\ ts_le(timestamp, lst_ts)

\* The for loop over the scrape types. The result is the history tables, what
\* is returned ("raised" for an exception) and the scrape types whose inserts ran.
RECURSIVE compile_loop(_, _, _, _, _)
compile_loop(tags, hist, done, scr, check_dates) ==
    IF tags = <<>> THEN [hist |-> hist, returned |-> "True", accepted |-> done]
    ELSE LET scrape_type == Head(tags)
             lst_ts == max_timestamp(hist[scrape_type])
             added == add_history(hist[scrape_type], scr)
             rejected == [hist |-> hist, returned |-> "False", accepted |-> done]
         IN  IF scrape_type \notin Cadences THEN rejected
             ELSE IF not_after_last(lst_ts, scr.timestamp) THEN rejected
             ELSE IF /\ check_dates /\ scrape_type = "weekly" /\ lst_ts # None
                     /\ ~weekly_ok(lst_ts, scr.timestamp) THEN rejected
             ELSE IF /\ check_dates /\ scrape_type = "monthly" /\ lst_ts # None
                     /\ ~monthly_ok(lst_ts, scr.timestamp) THEN rejected
             ELSE IF added.raised
                  THEN [hist |-> [hist EXCEPT ![scrape_type] = added.hist],
                        returned |-> "raised", accepted |-> done]
                  ELSE compile_loop(Tail(tags), [hist EXCEPT ![scrape_type] = added.hist],
                                    done \cup {scrape_type}, scr, check_dates)

\* the attributes of a page
Titles == {<<"Title 1">>, <<"Title 2">>}

Descriptions == {None, <<"Description">>}

\* the pages_info rows of the scrapes of successive weeks: page 1 with any
\* attributes or absent, page 2 present or absent
WeeklyInfos ==
    {one \cup two :
        one \in {{}} \cup {{InfoRow(1, t, d)} : t \in Titles, d \in Descriptions},
        two \in {{}, {InfoRow(2, <<"Title 1">>, None)}}}

\* scrape_site makes a weekly scrape database, later than the one before
WeeklyScrape ==
    /\ scrapes < MaxScrapes
    /\ \E ts \in WeekStamps, infos \in WeeklyInfos :
          /\ scrape.timestamp # None => ts_lt(scrape.timestamp, ts)
          /\ scrape' = ScrapeDb(ts, <<"weekly">>, infos)
    /\ compiled' = NotCompiled
    /\ scrapes' = scrapes + 1
    /\ UNCHANGED <<page_hist, compiles, called>>
    /\ UNCHANGED not_hist

\* the scrape types that scrape_site joins from a set
ScrapeTypes ==
    { <<"weekly">>, <<"monthly">>, <<"weekly", "monthly">>, <<"monthly", "weekly">>,
      <<"ad-hoc", "weekly">>, <<"weekly", "ad-hoc">>, <<"ad-hoc">> }

\* a scrape database of any time and scrape type is taken to be compiled
AnyScrape ==
    /\ scrapes < MaxScrapes
    /\ \E ts \in Stamps, tags \in ScrapeTypes, t \in Titles :
          scrape' = ScrapeDb(ts, tags, {InfoRow(1, t, None)})
    /\ compiled' = NotCompiled
    /\ scrapes' = scrapes + 1
    /\ UNCHANGED <<page_hist, compiles, called>>
    /\ UNCHANGED not_hist

\* compile_history(scrape_db, master_db, check_dates)
compile_history ==
    /\ scrape # NoScrape
    /\ compiled.calls < MaxCalls
    /\ \E check_dates \in BOOLEAN :
          LET res == compile_loop(split_slash(scrape.scrape_type), page_hist, {}, scrape,
                                  check_dates)
          IN  /\ page_hist' = res.hist
              /\ compiled' = [calls |-> compiled.calls + 1,
                              check_dates |-> check_dates,
                              returned |-> res.returned,
                              accepted |-> res.accepted,
                              earlier |-> compiled.earlier \cup compiled.accepted]
              /\ compiles' = [t \in Cadences |->
                                 IF t \in res.accepted
                                 THEN Append(compiles[t], [timestamp |-> scrape.timestamp,
                                                           pages |-> scrape.pages])
                                 ELSE compiles[t]]
    /\ UNCHANGED <<scrape, scrapes, called>>
    /\ UNCHANGED not_hist

\* the scrape types of a scrape that is both weekly and monthly
BothTypes == { <<"weekly">>, <<"weekly", "monthly">> }

\* three successive weeks
AppendStamps == {Mon53, Mon01, Mon02}

\* a scrape database of any week, earlier or later than the one before, is
\* taken to be compiled
StampScrape ==
    /\ scrapes < MaxScrapes
    /\ \E ts \in AppendStamps, tags \in BothTypes, t \in Titles :
          scrape' = ScrapeDb(ts, tags, {InfoRow(1, t, None)})
    /\ compiled' = NotCompiled
    /\ scrapes' = scrapes + 1
    /\ UNCHANGED <<page_hist, compiles, called>>
    /\ UNCHANGED not_hist

\* last day of the week and last day of the month on which scrapes are
\* accepted in the weekly and the monthly history
MAX_DOW == 2

MAX_DOM == 3

\* time.localtime().tm_wday: 0 for Monday
tm_wday(ts) == (timestamp_to_dt(ts).day - 1) % 7

\* time.localtime().tm_mday
tm_mday(ts) == ts[3]

\* a flag that is set always gives its tag
tag_ungated(flag, late, override, tag) == IF flag THEN {tag} ELSE {}

\* the tag that a flag of scrape_site adds to the set scrape_type
tag_of(flag, late, override, tag) ==
    IF flag
    THEN IF late THEN IF override THEN {tag} ELSE {"ad-hoc"}
         ELSE {tag}
    ELSE {}

\* the set scrape_type of scrape_site
scrape_type_set(weekly, monthly, override, now) ==
    LET tags == tag_of(monthly, tm_mday(now) > MAX_DOM, override, "monthly")
                \cup tag_of(weekly, tm_wday(now) + 1 > MAX_DOW, override, "weekly")
    IN  IF tags = {} THEN {"ad-hoc"} ELSE tags

\* the orders in which a set can be iterated by join
orders(S) == InjSeqs(S, Cardinality(S))

\* the days on which scrape_site starts: early and late in week and month
SiteStamps == {Mon53, Sun53, Mon01, Sun01, Feb01}

\* scrape_site(master_dir, weekly, monthly, override, basic): the scrape
\* database is made and, for a scrape that is not basic and is meant to be
\* weekly or monthly, compile_history is called with check_dates = not override
scrape_site ==
    /\ scrapes < MaxScrapes
    /\ \E weekly, monthly, override, basic \in BOOLEAN, now \in SiteStamps, t \in Titles :
          \E tags \in orders(scrape_type_set(weekly, monthly, override, now)) :
              LET scr == ScrapeDb(now, tags, {InfoRow(1, t, None)})
                  res == compile_loop(split_slash(scr.scrape_type), page_hist, {}, scr,
                                      ~override)
              IN  /\ scrape.timestamp # None => ts_lt(scrape.timestamp, now)
                  /\ scrape' = scr
                  /\ called' = [weekly |-> weekly, monthly |-> monthly,
                                override |-> override, basic |-> basic, by |-> "scrape_site"]
                  /\ IF ~basic /\ (weekly \/ monthly)
                     THEN /\ page_hist' = res.hist
                          /\ compiled' = [calls |-> 1, check_dates |-> ~override,
                                          returned |-> res.returned,
                                          accepted |-> res.accepted, earlier |-> {}]
                          /\ compiles' =
                                [c \in Cadences |->
                                    IF c \in res.accepted
                                    THEN Append(compiles[c], [timestamp |-> now,
                                                              pages |-> scr.pages])
                                    ELSE compiles[c]]
                     ELSE /\ compiled' = NotCompiled
                          /\ UNCHANGED <<page_hist, compiles>>
    /\ scrapes' = scrapes + 1
    /\ UNCHANGED not_hist

\* the master database as create_master_db makes it
HistInit == CrawlOff /\ SyncOff /\ HistOff /\ DeriveOff /\ TreeOff

LifeNext == WeeklyScrape \/ compile_history

\* weekly scrapes of successive weeks are compiled
LifeSpec == HistInit /\ [][LifeNext]_vars

CadenceNext == AnyScrape \/ compile_history

\* scrape databases of any time and scrape type are compiled
CadenceSpec == HistInit /\ [][CadenceNext]_vars

\* scrape_site is run on days early and late in week and month
SiteSpec == HistInit /\ [][scrape_site]_vars

AppendNext == StampScrape \/ compile_history

\* scrape databases are compiled in any order of their timestamps
AppendSpec == HistInit /\ [][AppendNext]_vars

\* the step is a call of compile_history
CompileStep == compiled'.calls = compiled.calls + 1

\* the step is a call of compile_history in which the inserts for c run
Accepts(c) == CompileStep /\ c \in compiled'.accepted

\* the rows the step adds to the history table of c
Added(c) == page_hist'[c] \ page_hist[c]

RowsOfPage(hist, p) == {r \in hist : r.page_id = p}

\* the life value of the j-th row of a page that is present and absent in turn
pattern(j) == IF j % 2 = 1 THEN (j + 1) \div 2 ELSE -(j \div 2)

\* the pages of compiles[c][n..m]: p is in none before n, and from n to m in
\* every second one, beginning with n
Alternates(c, p, n, m) ==
    /\ \A k \in 1..(n - 1) : p \notin compiles[c][k].pages
    /\ \A k \in n..m : (p \in compiles[c][k].pages) <=> ((k - n) % 2 = 0)

\* C15: a page that is present and absent in turn in successive accepted
\* scrapes of one scrape type has exactly one history row per scrape, and the
\* life values of these rows are 1, -1, 2, -2, 3, ... in order.
C15_LifeRoundTrip ==
    \A c \in Cadences : \A p \in former_pages(page_hist[c]) :
        \A n \in 1..Len(compiles[c]) : \A m \in n..Len(compiles[c]) :
            Alternates(c, p, n, m) =>
                LET rows == {r \in RowsOfPage(page_hist[c], p) :
                                ts_le(r.timestamp, compiles[c][m].timestamp)}
                IN  /\ Cardinality(rows) = m - n + 1
                    /\ \A k \in n..m :
                          \E r \in rows : /\ r.timestamp = compiles[c][k].timestamp
                                          /\ r.life = pattern(k - n + 1)

\* a page was present, absent and present again in three accepted weekly
\* scrapes: its rows have life 1, -1 and 2
C15_Witness ==
    /\ Len(compiles["weekly"]) >= 3
    /\ \E p \in former_pages(page_hist["weekly"]) :
          /\ Alternates("weekly", p, 1, 3)
          /\ {r.life : r \in RowsOfPage(page_hist["weekly"], p)} = {1, -1, 2}
          /\ Cardinality(RowsOfPage(page_hist["weekly"], p)) = 3

\* the pages_info row of page p
InfoOf(p) == CHOOSE i \in scrape.pages_info : i.page_id = p

\* C16: when compile_history accepts a scrape for a scrape type, every page of
\* the scrape that has no row in that history table gets exactly one row, with
\* the timestamp of the scrape, the attributes of pages_info and life 1, and no
\* page that has a row gets a row with life 1.
C16_Birth ==
    [][ \A c \in Cadences :
            Accepts(c) =>
                /\ \A p \in scrape.scr_wcm_paths :
                      RowsOfPage(page_hist[c], p) = {} =>
                         RowsOfPage(Added(c), p) =
                            {HistRow(scrape.timestamp, p, InfoOf(p).title,
                                     InfoOf(p).description, 1)}
                /\ \A r \in Added(c) :
                      r.life = 1 => RowsOfPage(page_hist[c], r.page_id) = {}
      ]_vars

\* a page with a description is born in an accepted scrape in which a page
\* that has history is present
C16_Witness ==
    /\ "weekly" \in compiled.accepted
    /\ \E r \in page_hist["weekly"] :
          /\ r.timestamp = scrape.timestamp /\ r.life = 1 /\ r.description # None
          /\ \E q \in page_hist["weekly"] :
                /\ q.page_id # r.page_id /\ q.page_id \in scrape.pages
                /\ ts_lt(q.timestamp, r.timestamp)

\* C17: when compile_history accepts a scrape for a scrape type, a page gets a
\* row with a negative life value exactly when its latest life value in that
\* history table is positive and it is not in the scrape; that row has the
\* negated latest life value and no attribute. A page whose latest life value
\* is negative and that is not in the scrape gets no row.
C17_Death ==
    [][ \A c \in Cadences :
            Accepts(c) =>
                \A p \in former_pages(page_hist'[c]) :
                    LET latest == last_value(page_hist[c], p, "life", NULL)
                    IN  IF latest > 0 /\ p \notin scrape.pages
                        THEN RowsOfPage(Added(c), p) =
                                {HistRow(scrape.timestamp, p, None, None, -latest)}
                        ELSE /\ \A r \in RowsOfPage(Added(c), p) : ~(r.life < 0)
                             /\ (latest < 0 /\ p \notin scrape.pages) =>
                                   RowsOfPage(Added(c), p) = {}
      ]_vars

\* an accepted scrape has given a death row to one page and no row to another
\* page, which was dead already
C17_Witness ==
    /\ "weekly" \in compiled.accepted
    /\ \E r \in page_hist["weekly"] :
          /\ r.timestamp = scrape.timestamp /\ r.life < 0
          /\ \E p \in former_pages(page_hist["weekly"]) :
                /\ p # r.page_id /\ p \notin scrape.pages
                /\ last_value(page_hist["weekly"], p, "life", NULL) < 0
                /\ \A q \in RowsOfPage(page_hist["weekly"], p) :
                      q.timestamp # scrape.timestamp

\* C18: when compile_history accepts a scrape, a page of the scrape that has
\* history, whose attributes all equal their latest values in history and
\* whose latest life value is positive gets no row.
C18_NoChangeNoRow ==
    [][ \A c \in Cadences :
            Accepts(c) =>
                \A i \in scrape.pages_info :
                    (/\ RowsOfPage(page_hist[c], i.page_id) # {}
                     /\ i.title = last_value(page_hist[c], i.page_id, "title", None)
                     /\ i.description
                           = last_value(page_hist[c], i.page_id, "description", None)
                     /\ last_value(page_hist[c], i.page_id, "life", NULL) > 0) =>
                        RowsOfPage(Added(c), i.page_id) = {}
      ]_vars

\* an accepted scrape has given no row to a page whose title had changed in an
\* earlier scrape and is the same now, and a row to another page
C18_Witness ==
    /\ "weekly" \in compiled.accepted
    /\ \E i \in scrape.pages_info :
          /\ Cardinality(RowsOfPage(page_hist["weekly"], i.page_id)) >= 2
          /\ \A r \in RowsOfPage(page_hist["weekly"], i.page_id) :
                r.timestamp # scrape.timestamp
          /\ i.title = last_value(page_hist["weekly"], i.page_id, "title", None)
          /\ \E r \in page_hist["weekly"] :
                r.timestamp = scrape.timestamp /\ r.page_id # i.page_id

\* the scrape types of the scrape database
TagsOf(scr) == Range(split_slash(scr.scrape_type))

\* the timestamp of the scrape is not later than the last one in the history of c
TooEarly(c) ==
    /\ max_timestamp(page_hist[c]) # None
    /\ ts_le(scrape.timestamp, max_timestamp(page_hist[c]))

\* a call for a scrape that is too early for c returns False and leaves the
\* history table of c as it is
TooEarlyRejected ==
    [][ CompileStep =>
            \A c \in Cadences :
                (c \in TagsOf(scrape) /\ TooEarly(c)) =>
                    /\ compiled'.returned = "False"
                    /\ page_hist'[c] = page_hist[c]
      ]_vars

\* C19: a call of compile_history for a scrape whose timestamp is not later
\* than the latest timestamp in the history table of a scrape type, or that was
\* compiled for that scrape type before, returns False and leaves that history
\* table and its latest timestamp unchanged, with and without check_dates.
C19_TooEarlyRejection ==
    [][ CompileStep =>
            \A c \in Cadences :
                (/\ c \in TagsOf(scrape)
                 /\ TooEarly(c) \/ c \in (compiled.accepted \cup compiled.earlier)) =>
                    /\ compiled'.returned = "False"
                    /\ page_hist'[c] = page_hist[c]
                    /\ max_timestamp(page_hist'[c]) = max_timestamp(page_hist[c])
      ]_vars

\* the week of the day of the timestamp, counted from the first Monday
week_nr(ts) == (timestamp_to_dt(ts).day - 1) \div 7

\* b is in the week after the week of a
NextWeek(a, b) == week_nr(b) = week_nr(a) + 1

\* the weekly inserts run for a scrape that has the weekly tag only exactly
\* when its timestamp is in the week after the last one in the weekly history
WeeklyWindowAlone ==
    [][ (/\ CompileStep /\ compiled'.check_dates
         /\ split_slash(scrape.scrape_type) = <<"weekly">>
         /\ max_timestamp(page_hist["weekly"]) # None) =>
            /\ "weekly" \in compiled'.accepted
                  <=> NextWeek(max_timestamp(page_hist["weekly"]), scrape.timestamp)
            /\ "weekly" \notin compiled'.accepted =>
                  page_hist'["weekly"] = page_hist["weekly"]
      ]_vars

\* C20: with check_dates and a weekly history that is not empty, the weekly
\* inserts of compile_history run for a weekly scrape if and only if its
\* timestamp is in the ISO week after the week of the latest timestamp in the
\* weekly history; a scrape that is not accepted adds no weekly rows.
C20_WeeklyWindow ==
    [][ (/\ CompileStep /\ compiled'.check_dates
         /\ "weekly" \in TagsOf(scrape)
         /\ max_timestamp(page_hist["weekly"]) # None) =>
            /\ "weekly" \in compiled'.accepted
                  <=> NextWeek(max_timestamp(page_hist["weekly"]), scrape.timestamp)
            /\ "weekly" \notin compiled'.accepted =>
                  page_hist'["weekly"] = page_hist["weekly"]
      ]_vars

\* the month of the day of the timestamp, counted from year 0
month_nr(ts) == ts[1] * 12 + ts[2]

\* b is in the month after the month of a
NextMonth(a, b) == month_nr(b) = month_nr(a) + 1

\* for a last monthly scrape within the first _MAX_DOM days of its month, the
\* monthly inserts run for a scrape with the monthly tag only exactly when its
\* timestamp is in the month after
MonthlyWindowEarly ==
    [][ (/\ CompileStep /\ compiled'.check_dates
         /\ split_slash(scrape.scrape_type) = <<"monthly">>
         /\ max_timestamp(page_hist["monthly"]) # None
         /\ tm_mday(max_timestamp(page_hist["monthly"])) <= MAX_DOM) =>
            ("monthly" \in compiled'.accepted
                <=> NextMonth(max_timestamp(page_hist["monthly"]), scrape.timestamp))
      ]_vars

\* C21: with check_dates and a monthly history that is not empty, the monthly
\* inserts of compile_history run for a scrape with the monthly tag if and only
\* if its timestamp is in the calendar month after the month of the latest
\* timestamp in the monthly history, whatever the day of the month of that
\* latest timestamp.
C21_MonthlyWindow ==
    [][ (/\ CompileStep /\ compiled'.check_dates
         /\ split_slash(scrape.scrape_type) = <<"monthly">>
         /\ max_timestamp(page_hist["monthly"]) # None) =>
            ("monthly" \in compiled'.accepted
                <=> NextMonth(max_timestamp(page_hist["monthly"]), scrape.timestamp))
      ]_vars

\* C22: after a call of compile_history in which the inserts for a scrape type
\* run, with or without check_dates, the latest timestamp of that history table,
\* which the next call reads as the last scrape in history, is the timestamp of
\* the scrape, also when the scrape has no new, dead or changed page.
C22_WatermarkAdvances ==
    [][ \A c \in Cadences :
            Accepts(c) => max_timestamp(page_hist'[c]) = scrape.timestamp
      ]_vars

\* C23: a call of compile_history that returns False has added no row to the
\* weekly or the monthly history table, whatever the scrape types of the scrape
\* and their order.
C23_RejectedWritesNothing ==
    [][ (CompileStep /\ compiled'.returned = "False") => page_hist' = page_hist ]_vars

\* the history table of c after the call, had the scrape had the tag c alone
Alone(c) ==
    compile_loop(<<c>>, page_hist, {}, scrape, compiled'.check_dates).hist[c]

\* C24: for a scrape with more than one scrape type, the rows that a call of
\* compile_history adds to the history table of one of these types are the rows
\* it adds for a scrape with that type alone: they do not depend on the other
\* history table, on an ad-hoc tag or on the order of the tags.
C24_CadencesIndependent ==
    [][ CompileStep =>
            \A c \in Cadences :
                c \in TagsOf(scrape) => page_hist'[c] = Alone(c)
      ]_vars

\* C25: a call of compile_history changes or deletes no row of the weekly or
\* the monthly history table, and every row it adds to a table has a timestamp
\* later than the timestamp of every row that was in that table before.
C25_AppendOnly ==
    [][ \A c \in Cadences :
            /\ page_hist[c] \subseteq page_hist'[c]
            /\ \A r \in Added(c) : \A q \in page_hist[c] :
                  ts_lt(q.timestamp, r.timestamp)
      ]_vars

\* rows of two scrapes are in the weekly history and a call for a scrape that
\* is earlier than the last of them has returned False
C25_Witness ==
    /\ Cardinality({r.timestamp : r \in page_hist["weekly"]}) >= 2
    /\ compiled.calls >= 1 /\ compiled.returned = "False"
    /\ ts_lt(scrape.timestamp, max_timestamp(page_hist["weekly"]))
    /\ scrape.pages_info # {}

\* the step is a call of scrape_site
SiteStep == scrapes' = scrapes + 1 /\ called'.by = "scrape_site"

\* the call of scrape_site was for scrape type c
Flagged(c) == IF c = "weekly" THEN called'.weekly ELSE called'.monthly

\* the call of scrape_site started too far in the week or month for c
Late(c) ==
    IF c = "weekly" THEN tm_wday(scrape'.timestamp) + 1 > MAX_DOW
    ELSE tm_mday(scrape'.timestamp) > MAX_DOM

\* scrape_site has called compile_history on the scrape database
Offered == compiled'.calls = 1 /\ compiled'.check_dates = ~called'.override

\* a scrape flagged for c that starts late, without override, adds no row to
\* the history table of c
GateCloses ==
    [][ SiteStep =>
            \A c \in Cadences :
                (Flagged(c) /\ Late(c) /\ ~called'.override) =>
                    page_hist'[c] = page_hist[c]
      ]_vars

MaxWrappers == 2

\* page types that belong to the dv, bib and alg category
DV_TYPES == {"bld-filter", "bld-dv-content"}

BIB_TYPES == {"bld-bd", "bld-cluster", "bld-direction", "bld-landing", "bld-overview",
              "bld-sitemap", "bld-target", "bld-targetGroup", "bld-concept", "bld-faq"}

ALG_TYPES == {"bld-outage", "bld-newsItem", "bld-iahWrapper"}

\* the page type and classes of the page that is no wrapper: one per branch
PlainPages ==
    { [pagetype |-> "bld-dv-content", classes |-> None],
      [pagetype |-> "bld-faq", classes |-> <<"bld-faq", "toeslagen">>],
      [pagetype |-> "bld-outage", classes |-> <<"douane">>],
      [pagetype |-> "bld-form", classes |-> <<"bld-form">>] }

\* the business of a page
business_of(cls) ==
    IF cls # None /\ cls # <<>>
    THEN IF "toeslagen" \in Range(cls) THEN <<"toeslagen">>
         ELSE IF "douane" \in Range(cls) THEN <<"douane">>
         ELSE <<"belastingen">>
    ELSE None

\* the category of a page that is no wrapper
plain_category(type) ==
    IF type \in DV_TYPES THEN <<"dv">>
    ELSE IF type \in BIB_TYPES THEN <<"bib">>
    ELSE IF type \in ALG_TYPES THEN <<"alg">>
    ELSE <<"unknown">>

\* cat_groups_qry: the categories, NULL being one of them, of the pages with
\* an editorial link to page_id
cat_groups(cat, page_id) == {cat[e[1]] : e \in {l \in referrers : l[2] = page_id}}

\* the category of a wrapper: the one category of all pages linking to it,
\* which can be NULL, else alg
wrapper_category(cat, page_id) ==
    LET categories == cat_groups(cat, page_id)
    IN  IF Cardinality(categories) = 1 THEN CHOOSE c \in categories : TRUE ELSE <<"alg">>

\* the cycles the retry loop can make at most
cycles_unbounded(without_cat) == Cardinality(without_cat) * 3 + 1

\* max_cycles
cycles(without_cat) == Cardinality(without_cat) * 3

\* the category of the wrappers that stay unresolved
rest_category == <<"alg">>

Wrappers == {p \in DOMAIN pagetype : pagetype[p] = "bld-wrapper"}

\* the connection is made and the derived fields are cleared
derive_begin ==
    /\ derive_pc = "begin"
    /\ category' = [p \in DOMAIN category |-> None]
    /\ business' = [p \in DOMAIN business |-> None]
    /\ wrappers_without_cat' = {}
    /\ main_todo' = DOMAIN pagetype
    /\ derive_pc' = "main"
    /\ UNCHANGED <<pagetype, classes, referrers, max_cycles, cycle, warned, after_main>>
    /\ UNCHANGED not_derive

\* one row of the for loop over all pages, wrapper pages after all others;
\* the order within the wrappers and within the others is not specified
main_step ==
    /\ derive_pc = "main"
    /\ \E page_id \in main_todo :
          /\ pagetype[page_id] = "bld-wrapper" => main_todo \subseteq Wrappers
          /\ LET cat == IF pagetype[page_id] = "bld-wrapper"
                        THEN wrapper_category(category, page_id)
                        ELSE plain_category(pagetype[page_id])
             IN  /\ business' = [business EXCEPT ![page_id] = business_of(classes[page_id])]
                 /\ category' = [category EXCEPT ![page_id] = cat]
                 /\ wrappers_without_cat' =
                       IF pagetype[page_id] = "bld-wrapper" /\ cat = None
                       THEN wrappers_without_cat \cup {page_id}
                       ELSE wrappers_without_cat
          /\ main_todo' = main_todo \ {page_id}
    /\ UNCHANGED <<pagetype, classes, referrers, max_cycles, cycle, derive_pc, warned,
                   after_main>>
    /\ UNCHANGED not_derive

\* the for loop ends: the retry loop is set up
main_end ==
    /\ derive_pc = "main" /\ main_todo = {}
    /\ max_cycles' = cycles(wrappers_without_cat)
    /\ cycle' = 0
    /\ after_main' = wrappers_without_cat
    /\ derive_pc' = "retry"
    /\ UNCHANGED <<pagetype, classes, business, category, referrers, main_todo,
                   wrappers_without_cat, warned>>
    /\ UNCHANGED not_derive

\* one cycle of the while loop; pop takes any element of the set
retry_step ==
    /\ derive_pc = "retry"
    /\ wrappers_without_cat # {} /\ cycle < max_cycles
    /\ cycle' = cycle + 1
    /\ \E page_id \in wrappers_without_cat :
          LET cat == wrapper_category(category, page_id)
          IN  IF cat = None
              THEN UNCHANGED <<category, wrappers_without_cat>>
              ELSE /\ category' = [category EXCEPT ![page_id] = cat]
                   /\ wrappers_without_cat' = wrappers_without_cat \ {page_id}
    /\ UNCHANGED <<pagetype, classes, business, referrers, main_todo, max_cycles,
                   derive_pc, warned, after_main>>
    /\ UNCHANGED not_derive

\* the while loop ends: the remaining cases are logged and set
derive_end ==
    /\ derive_pc = "retry"
    /\ ~(wrappers_without_cat # {} /\ cycle < max_cycles)
    /\ warned' = wrappers_without_cat
    /\ category' = [p \in DOMAIN category |->
                       IF p \in wrappers_without_cat THEN rest_category ELSE category[p]]
    /\ derive_pc' = "done"
    /\ UNCHANGED <<pagetype, classes, business, referrers, main_todo,
                   wrappers_without_cat, max_cycles, cycle, after_main>>
    /\ UNCHANGED not_derive

\* A scrape database as extract_pages_info leaves it, or after an earlier call
\* of derive_pages_info: page 1 is no wrapper, the other pages are wrappers, and
\* any page has editorial links to any wrappers.
DeriveInit ==
    /\ CrawlOff /\ SyncOff /\ HistOff /\ TreeOff
    /\ \E w \in 1..MaxWrappers :
          /\ \E plain \in PlainPages :
                /\ pagetype = [p \in 1..(w + 1) |->
                                  IF p = 1 THEN plain.pagetype ELSE "bld-wrapper"]
                /\ classes = [p \in 1..(w + 1) |->
                                 IF p = 1 THEN plain.classes ELSE <<"bld-wrapper">>]
          /\ referrers \in SUBSET ((1..(w + 1)) \X (2..(w + 1)))
          /\ \/ /\ category = [p \in 1..(w + 1) |-> None]
                /\ business = [p \in 1..(w + 1) |-> None]
             \/ /\ category = [p \in 1..(w + 1) |-> <<"bib">>]
                /\ business = [p \in 1..(w + 1) |-> <<"belastingen">>]
    /\ main_todo = {} /\ wrappers_without_cat = {}
    /\ max_cycles = 0 /\ cycle = 0
    /\ derive_pc = "begin"
    /\ warned = {} /\ after_main = {}

DeriveNext == derive_begin \/ main_step \/ main_end \/ retry_step \/ derive_end

DeriveSpec == DeriveInit /\ [][DeriveNext]_vars

\* derive_pages_info is run to its end
DeriveFairSpec == DeriveSpec /\ WF_vars(DeriveNext)

\* C27: for every graph of editorial links, derive_pages_info ends, after at
\* most 3 times as many cycles of the retry loop as there were wrappers without
\* category after the main loop; the wrappers that are then still without
\* category get category alg and are logged, and no row of pages_info is left
\* with a NULL category.
C27_CategoryResolutionEnds ==
    /\ [](derive_pc = "retry" => cycle <= 3 * Cardinality(after_main))
    /\ [](derive_pc = "done" =>
            /\ cycle <= 3 * Cardinality(after_main)
            /\ warned = wrappers_without_cat
            /\ \A p \in warned : category[p] = <<"alg">>
            /\ \A p \in DOMAIN category : category[p] # None)
    /\ <>(derive_pc = "done")

\* two wrappers that are linked only by each other were cycled over six times,
\* logged and set to alg
C27_Witness ==
    /\ derive_pc = "done"
    /\ Cardinality(warned) = 2 /\ cycle = 6
    /\ \A p \in warned : category[p] = <<"alg">> /\ cat_groups(category, p) = {<<"alg">>}
    /\ \A e \in referrers : e[1] \in warned /\ e[1] # e[2]

\* the pages with an editorial link to p
ReferrersOf(p) == {e[1] : e \in {l \in referrers : l[2] = p}}

\* a wrapper whose referrers are no wrappers has their one category, else alg
PlainReferrersRule ==
    derive_pc = "done" =>
        \A p \in Wrappers :
            ReferrersOf(p) \cap Wrappers = {} =>
                category[p] = IF ReferrersOf(p) = {} THEN <<"alg">> ELSE category[1]

\* C28: after derive_pages_info every wrapper whose referrers all end with one
\* and the same category has that category, also when referrers are wrappers
\* resolved in the retry loop; a wrapper whose referrers end with two or more
\* categories, or that has no referrer, has category alg.
C28_WrapperCategoryRule ==
    derive_pc = "done" =>
        \A p \in Wrappers :
            LET ends == {category[q] : q \in ReferrersOf(p)}
            IN  category[p] = IF Cardinality(ends) = 1 THEN CHOOSE c \in ends : TRUE
                              ELSE <<"alg">>

\* -------------------------------------------------------------- split_tree

\* the most tags within the body of a page
MaxTags == 3

\* The tags within <body> by what split_tree looks for: <header>, <footer>,
\* <div id="bld-nojs">, class bld-subnavigatie, class bld-feedback,
\* <div class="rs_skip">, <div id="vaModal">, <div class="content_add">, and
\* any other tag.
BodyKinds == {"header", "footer", "bld-nojs", "bld-subnavigatie", "bld-feedback",
              "rs_skip", "vaModal", "content_add", "p"}

\* The roots of the docs: the <html> tag of the working copy and the two new
\* html trunks. A tag that was extracted and not appended has no root.
TREE == 0

REST == -1

TRUNK == -2

Extracted == -3

\* find gives None
NoTag == -4

\* the root above tag n
RECURSIVE root_of(_, _)
root_of(par, n) == IF par[n] <= 0 THEN par[n] ELSE root_of(par, par[n])

\* tag n is a or is within a
RECURSIVE within(_, _, _)
within(par, n, a) == n = a \/ (par[n] > 0 /\ within(par, par[n], a))

\* find_all: the tags of a kind in the working copy, within tag a if given
find_all(page, par, kind, a) ==
    {n \in DOMAIN par : /\ page.kind[n] = kind
                        /\ root_of(par, n) = TREE
                        /\ a # NoTag => (n # a /\ within(par, n, a))}

\* the first of a set of tags in the order of the document
first(tags) == IF tags = {} THEN NoTag ELSE CHOOSE n \in tags : \A m \in tags : n <= m

\* find: the first tag of a kind
find(page, par, kind, a) == first(find_all(page, par, kind, a))

\* root.append(tag.extract()), if the tag was found
move(par, n, root) == IF n = NoTag THEN par ELSE [par EXCEPT ![n] = root]

\* for tag in find_all(...): root.append(tag.extract())
RECURSIVE move_all(_, _, _)
move_all(par, tags, root) ==
    IF tags = {} THEN par
    ELSE move_all(move(par, first(tags), root), tags \ {first(tags)}, root)

\* split_tree(soup): the docs, or the exception of tree.body.header when the
\* page has no <body>
split_tree_of(page) ==
    LET tree == page.parent
        t1 == move(tree, find(page, tree, "head", NoTag), REST)
        body == find(page, t1, "body", NoTag)
        t2 == move(t1, find(page, t1, "header", body), REST)
        t3 == move(t2, find(page, t2, "footer", body), REST)
        t4 == move(t3, find(page, t3, "bld-nojs", NoTag), REST)
        t5 == move(t4, find(page, t4, "bld-subnavigatie", NoTag), REST)
        t6 == move(t5, find(page, t5, "bld-feedback", NoTag), REST)
        t7 == move_all(t6, find_all(page, t6, "rs_skip", NoTag), REST)
        t8 == move_all(t7, find_all(page, t7, "vaModal", NoTag), REST)
        t9 == move_all(t8, find_all(page, t8, "content_add", NoTag), TRUNK)
    IN  IF body = NoTag
        THEN [raised |-> TRUE, parent |-> t1, editorial |-> NoTag, automated |-> NoTag,
              rest |-> NoTag]
        ELSE IF page.overview
        THEN [raised |-> FALSE, parent |-> t8, editorial |-> TRUNK, automated |-> TREE,
              rest |-> REST]
        ELSE [raised |-> FALSE, parent |-> t9, editorial |-> TREE, automated |-> TRUNK,
              rest |-> REST]

\* the parents of k tags in the order of the document, 0 being the tag above them
Shapes(k) ==
    {par \in [1..k -> 0..k] :
        \A i \in 1..k :
            /\ par[i] < i
            /\ i > 1 => (par[i] = 0 \/ within(par, i - 1, par[i]))}

\* the page as the parser makes it: <html> with an optional <head>, an optional
\* <body> and the tags within the body
Page(has_head, has_body, overview, kinds, par) ==
    LET h == IF has_head THEN 1 ELSE 0
        b == IF has_body THEN 1 ELSE 0
        k == Len(kinds)
    IN  [kind |-> [n \in 1..(h + b + k) |->
                      IF n <= h THEN "head"
                      ELSE IF n = h + b THEN "body"
                      ELSE kinds[n - h - b]],
         parent |-> [n \in 1..(h + b + k) |->
                      IF n <= h + b THEN TREE
                      ELSE IF par[n - h - b] = 0 THEN h + b
                      ELSE par[n - h - b] + h + b],
         overview |-> has_body /\ overview]

\* split_tree(soup)
split_tree ==
    /\ split_pc = "page"
    /\ LET res == split_tree_of(soup)
       IN  /\ split' = [parent |-> res.parent, editorial |-> res.editorial,
                        automated |-> res.automated, rest |-> res.rest]
           /\ split_pc' = IF res.raised THEN "raised" ELSE "returned"
    /\ UNCHANGED soup
    /\ UNCHANGED not_tree

\* the parsed page of any in-scope response with status 200
TreeInit ==
    /\ CrawlOff /\ SyncOff /\ HistOff /\ DeriveOff
    /\ \E has_head, has_body, overview \in BOOLEAN :
       \E k \in 0..(IF has_body THEN MaxTags ELSE 0) :
       \E kinds \in [1..k -> BodyKinds], par \in Shapes(k) :
          soup = Page(has_head, has_body, overview, kinds, par)
    /\ split = [parent |-> <<>>, editorial |-> 0, automated |-> 0, rest |-> 0]
    /\ split_pc = "page"

TreeSpec == TreeInit /\ [][split_tree]_vars

\* the tags of a doc
tags_of(root) == {n \in DOMAIN split.parent : root_of(split.parent, n) = root}

\* the docs a tag is in
docs_of(n) == {d \in {"editorial", "automated", "rest"} : n \in tags_of(split[d])}

\* for a page with a body, split_tree returns and every tag is in exactly one doc
PartitionWithBody ==
    (split_pc # "page" /\ \E n \in DOMAIN soup.kind : soup.kind[n] = "body") =>
        /\ split_pc = "returned"
        /\ \A n \in DOMAIN soup.kind : Cardinality(docs_of(n)) = 1

\* C29: for every page, split_tree returns an editorial, an automated and a
\* rest doc, and every tag of the page other than the html root is in exactly
\* one of them, whichever blocks the page has and however they are nested.
C29_PartitionComplete ==
    split_pc # "page" =>
        /\ split_pc = "returned"
        /\ \A n \in DOMAIN soup.kind : Cardinality(docs_of(n)) = 1

\* ------------------------------------------------------- missing wcm url

\* the step ends the request loop of scrape_page with an in-scope page that
\* has no DCTERMS.identifier
PageWithoutIdentifier ==
    /\ pc = "request"
    /\ site'[req_url].kind = "response" /\ site'[req_url].status = 200
    /\ site'[req_url].body.refresh = None
    /\ site'[req_url].body.identifier = None
    /\ startswith(req_url, root_url)

\* the page_id's under which a path is stored after the step
StoredAs(path) == {i \in 1..Len(scr_wcm_paths') : scr_wcm_paths'[i] = path}

\* the fallback is logged, no alias is saved and scrape_page returns to the
\* loop of scrape_site
FallbackReturns ==
    /\ req_url \in no_wcm_url'
    /\ redirs' = redirs
    /\ pc' = "loop" /\ urls_scraped' = urls_scraped + 1

IdentifierOutOfScope ==
    /\ pc = "request"
    /\ site'[req_url].kind = "response" /\ site'[req_url].status = 200
    /\ site'[req_url].body.refresh = None
    /\ startswith(req_url, root_url)
    /\ site'[req_url].body.identifier # None
    /\ ~startswith(wcm_url_of(req_url, site'[req_url].body), root_url)

\* C31: when an in-scope response with status 200 carries a
\* DCTERMS.identifier whose url does not start with root_url, scrape_page
\* returns without raising and scrape_site is back at its while.
C31_BadPageNeverAborts ==
    [][ IdentifierOutOfScope => pc' = "loop" /\ urls_scraped' = urls_scraped + 1 ]_vars

\* ------------------------------------------------------------ scope control

C33_ShortUrlsScraped ==
    [][ pc = "request" =>
            \A i \in (Len(links) + 1)..Len(links') :
                links'[i].type = "ext-to-int" =>
                    links'[i].url \in urls_todo' \cup urls_done'
      ]_vars

\* ------------------------------------------------- the two updates of a column

\* the column while an UPDATE is at work: the rows of S have the new value
\* already, the other rows the old value still
during(old, new, S) == [i \in 1..Len(old) |-> IF i \in S THEN new[i] ELSE old[i]]

\* no value other than NULL is in two rows
NoCollision(col) ==
    \A i, j \in 1..Len(col) : (col[i] # NULL /\ col[i] = col[j]) => i = j

\* C34: while sync_page_ids negates and rewrites a column that is PRIMARY KEY
\* or UNIQUE, the column has no value in two rows, whichever rows the running
\* UPDATE has done already.
C34_TwoPhaseCollisionFree ==
    [][ (sync_pc \in {"negate", "rewrite"} /\ sync_pc' # "failed") =>
            (\A c \in UniqueColumns :
                \A S \in SUBSET (1..Len(id_cols[c])) :
                    NoCollision(during(id_cols[c], id_cols'[c], S)))
      ]_vars

\* scr_wcm_paths.page_id is negated and is to be rewritten: the surrogate
\* page_id of one page is the universal page_id of another page
C34_Witness ==
    /\ sync_pc = "rewrite" /\ col_nr = 1
    /\ \E s, t \in id_trans : s # t /\ -s.old_id = t.new_id /\ s.new_id # t.new_id

\* C35: a call of sync_page_ids on a scrape database that has
\* universal_page_ids 'yes' adds no row to mst_wcm_paths and ends with the
\* values in every id column that the call began with.
C35_SyncIdempotent ==
    [][ universal_page_ids = "yes" =>
            (/\ mst_wcm_paths' = mst_wcm_paths
             /\ (sync_pc' = "synced" => id_cols' = before'))
      ]_vars

\* a second call on a synchronised scrape database has completed; the first
\* call changed its page_id's
C35_Witness ==
    /\ sync_pc = "synced" /\ universal_page_ids = "yes" /\ col_nr = Len(Columns)
    /\ id_cols = before
    /\ id_cols # fresh
    /\ Len(path_col) = 2

\* ------------------------------------------- one row per page and timestamp

\* C36: no insert of compile_history violates PRIMARY KEY (timestamp,
\* page_id), and the history table of every scrape type has at most one row
\* per timestamp and page_id; a page that got its first row in a run has no
\* second row with the timestamp of that run.
C36_OneRowPerPageAndSnapshot ==
    /\ compiled.returned # "raised"
    /\ \A c \in Cadences : \A r, q \in page_hist[c] :
          (r.timestamp = q.timestamp /\ r.page_id = q.page_id) => r = q

\* the last accepted run wrote the first row of one page and a row with a
\* changed title of another page
C36_Witness ==
    /\ compiled.accepted = {"weekly"}
    /\ \E r, q \in page_hist["weekly"] :
          /\ r.timestamp = scrape.timestamp /\ q.timestamp = scrape.timestamp
          /\ r.life = 1 /\ RowsOfPage(page_hist["weekly"], r.page_id) = {r}
          /\ q.page_id # r.page_id /\ q.life = NULL /\ q.title # None

\* ------------------------------------------- the history gives the scrape

\* the attributes of the page are their latest values in the history of c
\* after the step
Reconstructs(c, i) ==
    /\ last_value(page_hist'[c], i.page_id, "title", None) = i.title
    /\ last_value(page_hist'[c], i.page_id, "description", None) = i.description

\* as long as no attribute that has a value in history is NULL in the scrape,
\* the history gives the attributes of the scrape
ReconstructsKnown ==
    [][ \A c \in Cadences :
            Accepts(c) =>
                \A i \in scrape.pages_info :
                    (i.description # None
                     \/ last_value(page_hist[c], i.page_id, "description", None) = None)
                        => Reconstructs(c, i)
      ]_vars

\* C37: when compile_history accepts a scrape for a scrape type, the latest
\* value in history of every attribute of every page of the scrape is the value
\* of the attribute in the scrape, also when the value in the scrape is NULL.
C37_HistoryReconstructs ==
    [][ \A c \in Cadences :
            Accepts(c) => \A i \in scrape.pages_info : Reconstructs(c, i)
      ]_vars

\* --------------------------------------------- the order of the wrappers

\* The main loop over the pages in the order of seq, from categories cat: the
\* categories and the wrappers without category it ends with.
RECURSIVE main_in_order(_, _, _)
main_in_order(seq, cat, without) ==
    IF seq = <<>> THEN [category |-> cat, without |-> without]
    ELSE LET page_id == Head(seq)
             c == IF pagetype[page_id] = "bld-wrapper"
                  THEN wrapper_category(cat, page_id)
                  ELSE plain_category(pagetype[page_id])
         IN  main_in_order(Tail(seq), [cat EXCEPT ![page_id] = c],
                           IF pagetype[page_id] = "bld-wrapper" /\ c = None
                           THEN without \cup {page_id} ELSE without)

\* The retry loop and the last loop when pop takes the wrappers in turn, the
\* one after the last taken first: the categories it ends with.
RECURSIVE retry_in_order(_, _, _, _, _)
retry_in_order(cat, without, last, n, max) ==
    IF without = {} \/ n >= max
    THEN [p \in DOMAIN cat |-> IF p \in without THEN rest_category ELSE cat[p]]
    ELSE LET later == {p \in without : p > last}
             page_id == IF later # {} THEN Min(later) ELSE Min(without)
             c == wrapper_category(cat, page_id)
         IN  IF c = None THEN retry_in_order(cat, without, page_id, n + 1, max)
             ELSE retry_in_order([cat EXCEPT ![page_id] = c], without \ {page_id},
                                 page_id, n + 1, max)

\* the categories derive_pages_info ends with when the pages are processed
\* in the order of their page_id: the wrappers have the highest page_id's
InPageOrder ==
    LET main == main_in_order([i \in 1..Len(pagetype) |-> i],
                              [p \in DOMAIN pagetype |-> None], {})
    IN  retry_in_order(main.category, main.without, 0, 0, cycles(main.without))

\* when no wrapper has an editorial link to a wrapper, the order does not
\* matter
OrderIndependentPlain ==
    (derive_pc = "done" /\ \A e \in referrers : e[1] \notin Wrappers) =>
        category = InPageOrder

\* C38: whatever the order in which the main loop processes the wrappers and
\* the retry loop pops them, derive_pages_info ends with the categories that
\* it ends with when the pages are processed in the order of their page_id.
C38_OrderIndependent ==
    derive_pc = "done" => category = InPageOrder

====
